---- MODULE Spec2Model ----
(***************************************************************************)
(* A model of indra_db_lite: the best-content build (tables/best_content,  *)
(* construction/tables/fuzzed_best_content, construction/assemble), the    *)
(* query-side text model (api.TextContent, api.filter_paragraphs), the     *)
(* MeSH codec and the lookups of api, and the assembly of the final store. *)
(*                                                                         *)
(* The specifications share the variables below:                           *)
(*   Spec       the script of tables/best_content.py (__main__), step by   *)
(*              step, stopping at the first exception as a script does;    *)
(*   SpecSelect the selection steps in the order of the script, on a store *)
(*              into which the candidate records were imported;            *)
(*   SpecLoad   the table operations called one by one on a store, in any  *)
(*              order, each either committing or raising;                  *)
(*   SpecText   api.TextContent: construction, then calls of process.      *)
(*   SpecFilter api.filter_paragraphs on one paragraph list;               *)
(*   SpecMesh   mesh_id_to_mesh_num, mesh_num_to_mesh_id and               *)
(*              get_pmids_for_mesh_term, called in any order;              *)
(*   SpecApi    one lookup of api on a store;                              *)
(*   SpecAssemble  construct_local_database, call by call, stopping at the *)
(*              first exception;                                           *)
(*   SpecCsv    csv.query_to_csv on one query;                             *)
(*   SpecAgentTexts  the script of construction/tables/agent_texts.py      *)
(*              (__main__), run and run again on what it has left.         *)
(* A specification leaves the variables of the others at their idle value. *)
(***************************************************************************)
EXTENDS Integers, Sequences, FiniteSets, TLC

\* ------------------------------------------------------------- bounds
\* Candidate text records in the staging table (ids 1..MaxCands).
MaxCands == 3
\* Documents (text_ref_id 1..NumDocs).
NumDocs == 2

Docs == 1..NumDocs

\* ---------------------------------------------------------- data model
TextTypes == {"fulltext", "abstract", "title"}

\* A source label the priority orders do not name.
OtherSource == "other_source"

\* SQL NULL / Python None in an integer column (ids start at 1).
Null == 0
\* No exception.
NoError == "none"
\* A table that has not been created (or was dropped).
NoTable == "no such table"

VARIABLES
    candidates,       \* the candidate records of the source (write-once)
    text_content,     \* table text_content of the build store
    abstracts_tbl,    \* table abstracts of the build store, or NoTable
    best_content,     \* table best_content of the build store
    to_best_content,  \* table best_content of the destination store
    pc,               \* the next step of the script; or the last operation
    raised,           \* the exception the last step raised, or NoError
    loaded,           \* the row generators load_best_content_table consumed
    db_tables         \* the names of the tables each store has

dbVars == <<candidates, text_content, abstracts_tbl, best_content,
            to_best_content, pc, raised, loaded, db_tables>>

VARIABLES
    content_rows,     \* the rows a TextContent was constructed from
    fulltexts,        \* TextContent.fulltexts: text_ref_id -> content
    abstracts,        \* TextContent.abstracts
    titles,           \* TextContent.titles
    processed,        \* TextContent.processed
    first_call        \* the arguments of the first call of process

textVars == <<content_rows, fulltexts, abstracts, titles, processed,
              first_call>>

VARIABLES
    fp_paragraphs,    \* filter_paragraphs: the argument paragraphs
    fp_contains,      \* filter_paragraphs: the argument contains
    fp_result         \* filter_paragraphs: the returned text, once called

filterVars == <<fp_paragraphs, fp_contains, fp_result>>

VARIABLES
    store,            \* the tables of the local store the api reads
    call,             \* the last api call: name, args, and the call before
    outcome           \* what the last call raised, returned and queried

apiVars == <<store, call, outcome>>

VARIABLES
    sources,          \* assembly: the store at each path, as it was given
    out,              \* assembly: the tables and indexes of the destination
    asm_pc,           \* assembly: the next step of construct_local_database
    asm_raised        \* assembly: the exception that ended it, or NoError

asmVars == <<sources, out, asm_pc, asm_raised>>

vars == <<dbVars, textVars, filterVars, apiVars, asmVars>>

\* The value the variables of a part keep while another part runs.
Idle == "idle"
DbIdle ==
    /\ candidates = Idle /\ text_content = Idle /\ abstracts_tbl = Idle
    /\ best_content = Idle /\ to_best_content = Idle /\ pc = Idle
    /\ raised = Idle /\ loaded = Idle /\ db_tables = Idle
TextIdle ==
    /\ content_rows = Idle /\ fulltexts = Idle /\ abstracts = Idle
    /\ titles = Idle /\ processed = Idle /\ first_call = Idle
FilterIdle ==
    /\ fp_paragraphs = Idle /\ fp_contains = Idle /\ fp_result = Idle
ApiIdle == store = Idle /\ call = Idle /\ outcome = Idle
AsmIdle ==
    /\ sources = Idle /\ out = Idle /\ asm_pc = Idle /\ asm_raised = Idle

Range(f) == {f[x] : x \in DOMAIN f}

Min(S) == CHOOSE x \in S : \A y \in S : x <= y
Max(S) == CHOOSE x \in S : \A y \in S : x >= y

\* ------------------------------------------------ text_content records
\* One row of text_content: (id, text_ref_id, text_type, source, content).
\* The content cell is the hex dump of the packed text of that candidate.
TextContentRow(i, d, k) ==
    [id |-> i, text_ref_id |-> d, text_type |-> k[1], source |-> k[2],
     content |-> <<"hex", i>>]

\* The (text_type, source) pairs candidate records are drawn from, in a
\* fixed order.  A fulltext takes any label of the fulltext order or a foreign
\* one; an abstract or a title any label of the abstract order or a foreign
\* one.
KindSeq ==
    <<<<"fulltext", "pmc_oa">>, <<"fulltext", "manuscripts">>,
      <<"fulltext", "cord19_pmc_xml">>, <<"fulltext", "elsevier">>,
      <<"fulltext", "cord19_pdf">>, <<"fulltext", OtherSource>>,
      <<"abstract", "pubmed">>, <<"abstract", "cord19_abstract">>,
      <<"abstract", OtherSource>>,
      <<"title", "pubmed">>, <<"title", "cord19_abstract">>,
      <<"title", OtherSource>>>>

\* The documents of records 1..n, up to a renaming of the documents: they
\* are numbered in the order of their first record.
DocAssignments(n) ==
    {f \in [1..n -> Docs] :
        \A i \in 1..n : f[i] <= 1 + Max({0} \cup {f[j] : j \in 1..(i-1)})}

\* The staging tables with records 1..n.  A choice is a pair
\* <<documents, kinds>> of the n records.
CandidateChoices(n, kinds) == DocAssignments(n) \X [1..n -> DOMAIN kinds]

CandidateTable(n, kinds, p) ==
    {TextContentRow(i, p[1][i], kinds[p[2][i]]) : i \in 1..n}

RowsOf(table, d, type) ==
    {r \in table : r.text_ref_id = d /\ r.text_type = type}

HasType(table, d, type) == RowsOf(table, d, type) # {}

\* ------------------------------------------------- selection (SQL steps)
\* A faulty variant: the DELETE is never committed, so no row goes.
delete_content_uncommitted(table) == table

\* DELETE ... WHERE text_ref_id IN (SELECT text_ref_id ... 'fulltext')
\*              AND (text_type = 'abstract' OR text_type = 'title')
delete_content_for_which_fulltext_exists(table) ==
    {r \in table :
        ~ (/\ \E f \in table : f.text_type = "fulltext"
                                /\ f.text_ref_id = r.text_ref_id
           /\ r.text_type \in {"abstract", "title"})}

\* A faulty variant: the ELSE branch ranks a foreign source first.
FulltextRankElseFirst(source) ==
    CASE source = "pmc_oa" -> 0
      [] source = "manuscripts" -> 1
      [] source = "cord19_pmc_xml" -> 2
      [] source = "elsevier" -> 3
      [] source = "cord19_pdf" -> 4
      [] OTHER -> 0

\* CASE source WHEN 'pmc_oa' THEN 0 ... ELSE 5 END
FulltextRank(source) ==
    CASE source = "pmc_oa" -> 0
      [] source = "manuscripts" -> 1
      [] source = "cord19_pmc_xml" -> 2
      [] source = "elsevier" -> 3
      [] source = "cord19_pdf" -> 4
      [] OTHER -> 5

\* CASE source WHEN 'pubmed' THEN 0 WHEN 'cord19_abstract' THEN 1 ELSE 2 END
AbstractRank(source) ==
    CASE source = "pubmed" -> 0
      [] source = "cord19_abstract" -> 1
      [] OTHER -> 2

GroupKeys(table) == {r.text_ref_id : r \in table}

\* The indexes add_indices_to_text_content_table creates.  The store reads
\* the groups of GROUP BY text_ref_id through one of them, and the choice is
\* the store's.
ScanOrders ==
    {"text_content_text_ref_idx", "text_content_text_ref_text_type_idx"}

\* Row x is read before row y of its group.  text_content declares id
\* INTEGER PRIMARY KEY, so id is the rowid and the last key of every index
\* entry: the index on text_ref_id lists a group by id, the index on
\* (text_ref_id, text_type) by text_type ('abstract' < 'fulltext' < 'title')
\* and then by id, in whatever order the rows were inserted.
ScanBefore(scan, x, y) ==
    LET place(type) == CASE type = "abstract" -> 1
                         [] type = "fulltext" -> 2
                         [] OTHER -> 3
    IN  IF scan = "text_content_text_ref_idx" THEN x.id < y.id
        ELSE \/ place(x.text_type) < place(y.text_type)
             \/ x.text_type = y.text_type /\ x.id < y.id

\* SELECT id, MIN(<rank>) FROM text_content GROUP BY text_ref_id
\* The group is every row of the document, whatever its text_type.  SQLite
\* takes the bare column id from a row that attains the minimum, and which
\* one is left to it when several do: the aggregate replaces its minimum
\* only by a strictly smaller value, so it is the first such row of the
\* scan.  The result is the id column, one id per group.
FulltextGroupMinId(table, d, scan) ==
    LET attain == {x \in table :
            /\ x.text_ref_id = d
            /\ \A o \in table : o.text_ref_id = d =>
                  FulltextRank(x.source) <= FulltextRank(o.source)}
    IN  (CHOOSE x \in attain :
            \A y \in attain \ {x} : ScanBefore(scan, x, y)).id

FulltextGroupMinIds(table, scan) ==
    {FulltextGroupMinId(table, d, scan) : d \in GroupKeys(table)}

AbstractGroupMinId(table, d, scan) ==
    LET attain == {x \in table :
            /\ x.text_ref_id = d
            /\ \A o \in table : o.text_ref_id = d =>
                  AbstractRank(x.source) <= AbstractRank(o.source)}
    IN  (CHOOSE x \in attain :
            \A y \in attain \ {x} : ScanBefore(scan, x, y)).id

AbstractGroupMinIds(table, scan) ==
    {AbstractGroupMinId(table, d, scan) : d \in GroupKeys(table)}

\* DELETE FROM text_content WHERE text_type = 'fulltext' AND id NOT IN (...)
delete_duplicate_fulltexts(table, scan) ==
    {r \in table : ~ (/\ r.text_type = "fulltext"
                      /\ r.id \notin FulltextGroupMinIds(table, scan))}

\* DELETE FROM text_content WHERE text_type = 'abstract' AND id NOT IN (...)
delete_duplicate_abstracts(table, scan) ==
    {r \in table : ~ (/\ r.text_type = "abstract"
                      /\ r.id \notin AbstractGroupMinIds(table, scan))}

\* SELECT tc1.id, tc2.id, tc1.text_ref_id, tc1.text_type, tc1.source,
\*        tc2.content AS title, tc1.content AS abstract
\* FROM text_content tc1 INNER JOIN text_content tc2 ON tc1 abstract,
\*      tc2 title, same text_ref_id
combine_abstracts_with_titles(table) ==
    {[tcid1 |-> a.id, tcid2 |-> t.id, text_ref_id |-> a.text_ref_id,
      text_type |-> a.text_type, source |-> a.source,
      title |-> t.content, abstract |-> a.content] :
        <<a, t>> \in {p \in table \X table :
            /\ p[1].text_type = "abstract"
            /\ p[2].text_type = "title"
            /\ p[1].text_ref_id = p[2].text_ref_id}}

\* delete_abstracts runs DELETE, then VACUUM, then commit.  The DELETE opens
\* the connection's implicit transaction; VACUUM inside a transaction is
\* refused (sqlite3.OperationalError: cannot VACUUM from within a
\* transaction), the commit is never reached and closing the connection rolls
\* the DELETE back.  The table is left as it was and the call raises.
delete_abstracts(table) ==
    [table |-> table, raised |-> "OperationalError"]

\* DELETE FROM text_content WHERE text_ref_id IN (SELECT text_ref_id FROM
\* abstracts) AND text_type = 'title'   (committed before the VACUUM)
delete_titles_for_which_abstracts_exist(table, abstracts_table) ==
    {r \in table :
        ~ (/\ r.text_type = "title"
           /\ \E a \in abstracts_table : a.text_ref_id = r.text_ref_id)}

\* ------------------------------------------- the script (__main__)
\* The script has ended, by an exception or not.
Terminated == pc \in {"failed", "done"}

\* import_into_text_content_table(table_path, sqlite_db_path) on a new
\* store: ensure_text_content_table creates the table and the sqlite3 shell
\* imports the rows of the csv file at table_path.  At a path without a file
\* the shell fails, subprocess.run does not check it, and the table stays
\* empty.  `files` are the csv files by their paths.
import_into_text_content_table(files, table_path) ==
    IF table_path \in DOMAIN files THEN files[table_path] ELSE {}

\* The state after text_content_to_csv('/adeft/text_content.csv').
InitScript ==
    /\ TextIdle /\ FilterIdle /\ ApiIdle /\ AsmIdle
    /\ \E n \in 0..MaxCands : \E p \in CandidateChoices(n, KindSeq) :
          candidates = CandidateTable(n, KindSeq, p)
    /\ text_content = {}
    /\ abstracts_tbl = NoTable
    /\ best_content = {}
    /\ to_best_content = {}
    /\ pc = "import_into_text_content_table"
    /\ raised = NoError
    /\ loaded = {}
    /\ db_tables = [build |-> {}, to |-> {}]

\* import_into_text_content_table('/adeft/text_content.db', db_path), after
\* text_content_to_csv has written the candidate records of the source
\* database to '/adeft/text_content.csv': the script names the path of no
\* file it has written.  os.remove of the csv
\* file and add_indices_to_text_content_table follow and change no row.
StepImportIntoTextContentTable ==
    /\ UNCHANGED <<textVars, filterVars, apiVars, asmVars>>
    /\ pc = "import_into_text_content_table"
    /\ text_content' = import_into_text_content_table(
                           "/adeft/text_content.csv" :> candidates,
                           "/adeft/text_content.db")
    /\ db_tables' = [db_tables EXCEPT !.build = @ \cup {"text_content"}]
    /\ pc' = "delete_content_for_which_fulltext_exists"
    /\ UNCHANGED <<candidates, abstracts_tbl, best_content, to_best_content,
                   raised, loaded>>

\* The selection steps on a store into which
\* import_into_text_content_table has imported the csv file of the
\* candidates.
InitSelect ==
    /\ TextIdle /\ FilterIdle /\ ApiIdle /\ AsmIdle
    /\ \E n \in 0..MaxCands : \E p \in CandidateChoices(n, KindSeq) :
          candidates = CandidateTable(n, KindSeq, p)
    /\ text_content = import_into_text_content_table(
                          "/adeft/text_content.csv" :> candidates,
                          "/adeft/text_content.csv")
    /\ abstracts_tbl = NoTable
    /\ best_content = {}
    /\ to_best_content = {}
    /\ pc = "delete_content_for_which_fulltext_exists"
    /\ raised = NoError
    /\ loaded = {}
    /\ db_tables = [build |-> {"text_content"}, to |-> {}]

StepDeleteContentForWhichFulltextExists ==
    /\ UNCHANGED <<textVars, filterVars, apiVars, asmVars>>
    /\ pc = "delete_content_for_which_fulltext_exists"
    /\ text_content' = delete_content_for_which_fulltext_exists(text_content)
    /\ pc' = "delete_duplicate_fulltexts"
    /\ UNCHANGED <<candidates, abstracts_tbl, best_content, to_best_content,
                   raised, loaded, db_tables>>

StepDeleteDuplicateFulltexts ==
    /\ UNCHANGED <<textVars, filterVars, apiVars, asmVars>>
    /\ pc = "delete_duplicate_fulltexts"
    /\ \E scan \in ScanOrders :
          text_content' = delete_duplicate_fulltexts(text_content, scan)
    /\ pc' = "delete_duplicate_abstracts"
    /\ UNCHANGED <<candidates, abstracts_tbl, best_content, to_best_content,
                   raised, loaded, db_tables>>

StepDeleteDuplicateAbstracts ==
    /\ UNCHANGED <<textVars, filterVars, apiVars, asmVars>>
    /\ pc = "delete_duplicate_abstracts"
    /\ \E scan \in ScanOrders :
          text_content' = delete_duplicate_abstracts(text_content, scan)
    /\ pc' = "combine_abstracts_with_titles"
    /\ UNCHANGED <<candidates, abstracts_tbl, best_content, to_best_content,
                   raised, loaded, db_tables>>

\* CREATE TABLE IF NOT EXISTS abstracts AS SELECT ...
StepCombineAbstractsWithTitles ==
    /\ UNCHANGED <<textVars, filterVars, apiVars, asmVars>>
    /\ pc = "combine_abstracts_with_titles"
    /\ abstracts_tbl' = IF abstracts_tbl = NoTable
                          THEN combine_abstracts_with_titles(text_content)
                          ELSE abstracts_tbl
    /\ db_tables' = [db_tables EXCEPT !.build = @ \cup {"abstracts"}]
    /\ pc' = "delete_abstracts"
    /\ UNCHANGED <<candidates, text_content, best_content, to_best_content,
                   raised, loaded>>

\* The exception of delete_abstracts is not caught: the script ends here,
\* before delete_titles_for_which_abstracts_exist and before both loads.
StepDeleteAbstracts ==
    /\ UNCHANGED <<textVars, filterVars, apiVars, asmVars>>
    /\ pc = "delete_abstracts"
    /\ LET res == delete_abstracts(text_content) IN
          /\ text_content' = res.table
          /\ raised' = res.raised
          /\ pc' = IF res.raised = NoError
                     THEN "delete_titles_for_which_abstracts_exist"
                     ELSE "failed"
    /\ UNCHANGED <<candidates, abstracts_tbl, best_content, to_best_content,
                   loaded, db_tables>>

NextSelect ==
    \/ StepDeleteContentForWhichFulltextExists
    \/ StepDeleteDuplicateFulltexts
    \/ StepDeleteDuplicateAbstracts
    \/ StepCombineAbstractsWithTitles
    \/ StepDeleteAbstracts

NextScript ==
    \/ StepImportIntoTextContentTable
    \/ StepDeleteContentForWhichFulltextExists
    \/ StepDeleteDuplicateFulltexts
    \/ StepDeleteDuplicateAbstracts
    \/ StepCombineAbstractsWithTitles
    \/ StepDeleteAbstracts

\* ------------------------------------------------ best_content rows
\* unpack(bytes.fromhex(cell)): the text packed in a content cell.
Unpack(cell) == <<"text", cell[2]>>

\* universal_extract_paragraphs(text): the paragraph list of a text.
ExtractParagraphs(text) == <<"paragraphs", text[2]>>

\* _extract_then_dump(hex_string)
ExtractThenDump(cell) == <<"json", ExtractParagraphs(Unpack(cell))>>

\* The sequences that list every element of S once.
Orders(S) ==
    {f \in [1..Cardinality(S) -> S] :
        \A i, j \in 1..Cardinality(S) : f[i] = f[j] => i = j}

\* SELECT * FROM abstracts: the rows in the order the join of
\* combine_abstracts_with_titles wrote them, which is the order of the
\* abstract's id and, for one abstract, of the title's id (the join scans tc1
\* by id and looks tc2 up through the index on text_ref_id, text_type).
ByJoinOrder(S) ==
    CHOOSE f \in Orders(S) :
        \A i, j \in 1..Cardinality(S) : i < j =>
            \/ f[i].tcid1 < f[j].tcid1
            \/ f[i].tcid1 = f[j].tcid1 /\ f[i].tcid2 < f[j].tcid2

\* SELECT * FROM text_content: SQLite scans the table in rowid order, and the
\* rowid is the column id (INTEGER PRIMARY KEY).
ByRowid(S) ==
    CHOOSE f \in Orders(S) :
        \A i, j \in 1..Cardinality(S) : i < j => f[i].id < f[j].id

\* cur.fetchmany(batch_size) until the result is empty: the rows in blocks.
RECURSIVE FetchMany(_, _)
FetchMany(rows, batch_size) ==
    IF rows = <<>> THEN <<>>
    ELSE IF Len(rows) <= batch_size THEN <<rows>>
    ELSE <<SubSeq(rows, 1, batch_size)>>
         \o FetchMany(SubSeq(rows, batch_size + 1, Len(rows)), batch_size)

\* A faulty variant: the two back-references are exchanged.
AbstractsRowExchanged(a) ==
    [id |-> Null, text_ref_id |-> a.text_ref_id,
     text_content_id1 |-> a.tcid2, text_content_id2 |-> a.tcid1,
     text_type |-> a.text_type,
     content |-> <<"json", <<Unpack(a.title), Unpack(a.abstract)>>>>]

\* One row of abstracts_generator: [None, text_ref_id, tcid1, tcid2,
\* text_type, json.dumps([unpack(title), unpack(abstract)])].
AbstractsRow(a) ==
    [id |-> Null, text_ref_id |-> a.text_ref_id,
     text_content_id1 |-> a.tcid1, text_content_id2 |-> a.tcid2,
     text_type |-> a.text_type,
     content |-> <<"json", <<Unpack(a.title), Unpack(a.abstract)>>>>]

\* One row of fulltexts_and_titles_generator: [None, text_ref_id, tcid, None,
\* text_type, _extract_then_dump(content)], for every row of text_content.
FulltextsAndTitlesRow(r) ==
    [id |-> Null, text_ref_id |-> r.text_ref_id,
     text_content_id1 |-> r.id, text_content_id2 |-> Null,
     text_type |-> r.text_type, content |-> ExtractThenDump(r.content)]

\* The blocks abstracts_generator yields, the table read in order `order`.
abstracts_generator(order, batch_size) ==
    FetchMany([i \in DOMAIN order |-> AbstractsRow(order[i])], batch_size)

fulltexts_and_titles_generator(order, batch_size) ==
    FetchMany([i \in DOMAIN order |-> FulltextsAndTitlesRow(order[i])],
              batch_size)

\* A faulty variant: the table is created without UNIQUE(text_ref_id).
UniqueViolationWithoutTextRefId(table, row) ==
    \E r \in table :
        \/ row.id # Null /\ r.id = row.id
        \/ row.text_content_id1 # Null
             /\ r.text_content_id1 = row.text_content_id1

\* CREATE TABLE best_content (id INTEGER PRIMARY KEY, ...,
\*     UNIQUE(text_content_id1), UNIQUE(text_ref_id)): whether inserting
\* `row` violates a constraint.  A NULL never collides.
UniqueViolation(table, row) ==
    \E r \in table :
        \/ row.id # Null /\ r.id = row.id
        \/ row.text_content_id1 # Null
             /\ r.text_content_id1 = row.text_content_id1
        \/ row.text_ref_id # Null /\ r.text_ref_id = row.text_ref_id

\* The rowid SQLite gives a row inserted with id NULL.
NextRowid(table) == 1 + Max({0} \cup {r.id : r \in table})

InsertRow(table, row) ==
    table \cup {IF row.id = Null
                  THEN [row EXCEPT !.id = NextRowid(table)]
                  ELSE row}

\* cur.executemany("INSERT INTO best_content ... VALUES (?, ...)", row_list):
\* plain INSERT, so the first row that violates a constraint raises
\* sqlite3.IntegrityError.
RECURSIVE executemany(_, _)
executemany(table, row_list) ==
    IF row_list = <<>> THEN [table |-> table, raised |-> NoError]
    ELSE IF UniqueViolation(table, Head(row_list))
           THEN [table |-> table, raised |-> "IntegrityError"]
           ELSE executemany(InsertRow(table, Head(row_list)), Tail(row_list))

\* load_best_content_table: ensure_best_content_table first, so a store
\* without the table is loaded as one with the empty table; then per block,
\* executemany then commit.  An exception leaves the loop; the connection is
\* closed without a commit, which rolls the rows of the failing block back.
\* Committed blocks stay.
RECURSIVE load_best_content_table(_, _)
load_best_content_table(table, row_generator) ==
    IF row_generator = <<>> THEN [table |-> table, raised |-> NoError]
    ELSE LET res == executemany(table, Head(row_generator)) IN
         IF res.raised # NoError
           THEN [table |-> table, raised |-> res.raised]
           ELSE load_best_content_table(res.table, Tail(row_generator))

\* The table best_content of a store as an operation finds it: whether the
\* store has the table, and its rows.
BestContentOf(store_tables, rows) ==
    [exists |-> "best_content" \in store_tables, rows |-> rows]

\* make_compressed_best_content_table(from, to):
\* ensure_best_content_table(to), then SELECT ... FROM best_content on the
\* source, which raises sqlite3.OperationalError (no such table) when the
\* source has no such table; then INSERT OR IGNORE of every row, content
\* compressed, then PRAGMA journal_mode = DELETE, then commit.  With at least
\* one row the PRAGMA runs inside the transaction the first INSERT opened and
\* is left unfinished on the cursor, so the commit raises
\* sqlite3.OperationalError (cannot commit transaction - SQL statements in
\* progress) and closing the connection rolls every insert back.  With no row
\* there is no transaction and the call returns.
make_compressed_best_content_table(from, to) ==
    IF from.exists /\ from.rows = {}
      THEN [table |-> to.rows, exists |-> TRUE, raised |-> NoError]
      ELSE [table |-> to.rows, exists |-> TRUE,
            raised |-> "OperationalError"]

\* move_table(from, to, 'best_content'): both stores must have the table
\* (two assertions); then INSERT INTO best_content SELECT * FROM
\* from_db.best_content.  One statement: it inserts every row (ids included)
\* or, on a constraint violation, nothing, and raises.
move_table(from, to) ==
    IF ~ from.exists \/ ~ to.exists
      THEN [table |-> to.rows, raised |-> "AssertionError"]
    ELSE IF \E row \in from.rows : UniqueViolation(to.rows, row)
      THEN [table |-> to.rows, raised |-> "IntegrityError"]
      ELSE [table |-> to.rows \cup from.rows, raised |-> NoError]

\* ---------------------------------------- the loading operations
\* The kinds of the stores the loading operations run on.
LoadKindSeq ==
    <<<<"fulltext", "pmc_oa">>, <<"fulltext", "elsevier">>,
      <<"abstract", "pubmed">>, <<"abstract", "cord19_abstract">>,
      <<"title", "pubmed">>, <<"title", OtherSource>>>>

\* The batch_size arguments: one row per block, and the defaults, which hold
\* every table of the model in one block.
BatchSizes == {1, 10000}

\* A store on which the selection steps have been called in the order of the
\* script, each on the result of the one before.
InitLoad ==
    /\ TextIdle /\ FilterIdle /\ ApiIdle /\ AsmIdle
    /\ \E n \in 0..MaxCands : \E p \in CandidateChoices(n, LoadKindSeq) :
          candidates = CandidateTable(n, LoadKindSeq, p)
    /\ \E scan1 \in ScanOrders, scan2 \in ScanOrders :
        LET t1 == delete_content_for_which_fulltext_exists(candidates)
            t2 == delete_duplicate_fulltexts(t1, scan1)
            t3 == delete_duplicate_abstracts(t2, scan2)
            t4 == delete_abstracts(t3).table
        IN /\ abstracts_tbl = combine_abstracts_with_titles(t3)
           /\ text_content =
                delete_titles_for_which_abstracts_exist(
                    t4, combine_abstracts_with_titles(t3))
    /\ best_content = {}
    /\ to_best_content = {}
    /\ pc = "selected"
    /\ raised = NoError
    /\ loaded = {}
    /\ db_tables = [build |-> {"text_content", "abstracts"}, to |-> {}]

\* load_best_content_table(db_path, abstracts_generator(db_path, batch_size))
LoadAbstracts ==
    /\ UNCHANGED <<textVars, filterVars, apiVars, asmVars>>
    /\ \E batch_size \in BatchSizes :
          LET res == load_best_content_table(
                         best_content,
                         abstracts_generator(
                             ByJoinOrder(abstracts_tbl), batch_size))
          IN /\ best_content' = res.table
             /\ raised' = res.raised
    /\ pc' = "load_abstracts"
    /\ loaded' = loaded \cup {"abstracts"}
    /\ db_tables' = [db_tables EXCEPT !.build = @ \cup {"best_content"}]
    /\ UNCHANGED <<candidates, text_content, abstracts_tbl, to_best_content>>

\* load_best_content_table(db_path,
\*                         fulltexts_and_titles_generator(db_path, batch_size))
LoadFulltextsAndTitles ==
    /\ UNCHANGED <<textVars, filterVars, apiVars, asmVars>>
    /\ \E batch_size \in BatchSizes :
          LET res == load_best_content_table(
                         best_content,
                         fulltexts_and_titles_generator(
                             ByRowid(text_content), batch_size))
          IN /\ best_content' = res.table
             /\ raised' = res.raised
    /\ pc' = "load_fulltexts_and_titles"
    /\ loaded' = loaded \cup {"fulltexts_and_titles"}
    /\ db_tables' = [db_tables EXCEPT !.build = @ \cup {"best_content"}]
    /\ UNCHANGED <<candidates, text_content, abstracts_tbl, to_best_content>>

\* make_compressed_best_content_table(build store, destination store)
MakeCompressedBestContentTable ==
    /\ UNCHANGED <<textVars, filterVars, apiVars, asmVars>>
    /\ LET res == make_compressed_best_content_table(
                      BestContentOf(db_tables.build, best_content),
                      BestContentOf(db_tables.to, to_best_content))
       IN /\ to_best_content' = res.table
          /\ raised' = res.raised
    /\ db_tables' = [db_tables EXCEPT !.to = @ \cup {"best_content"}]
    /\ pc' = "make_compressed_best_content_table"
    /\ UNCHANGED <<candidates, text_content, abstracts_tbl, best_content,
                   loaded>>

\* move_table(build store, destination store, 'best_content')
MoveTable ==
    /\ UNCHANGED <<textVars, filterVars, apiVars, asmVars>>
    /\ LET res == move_table(BestContentOf(db_tables.build, best_content),
                             BestContentOf(db_tables.to, to_best_content))
       IN /\ to_best_content' = res.table
          /\ raised' = res.raised
    /\ pc' = "move_table"
    /\ UNCHANGED <<candidates, text_content, abstracts_tbl, best_content,
                   loaded, db_tables>>

NextLoad ==
    \/ LoadAbstracts
    \/ LoadFulltextsAndTitles
    \/ MakeCompressedBestContentTable
    \/ MoveTable

\* ------------------------------------------------ strings and patterns
\* A Python str is the sequence of its characters; a paragraph list is a
\* sequence of strings.
\* Characters of the texts: two word characters that differ only in case, a
\* blank, and a full stop, which is a regular-expression metacharacter.
Alphabet == {"a", "A", " ", "."}

\* \w of the regular-expression engine, on the characters used here.
IsWord(ch) == ch \in {"a", "A"}

\* Paragraphs are at most MaxParLen characters long, entries of contains at
\* most MaxEntryLen.
MaxParLen == 3
MaxEntryLen == 2

Str(n) == UNION {[1..k -> Alphabet] : k \in 0..n}

\* The argument contains: None, a str, or a collection of str.
None == [kind |-> "None", val |-> <<>>]
StrArg(s) == [kind |-> "str", val |-> s]
ListArg(l) == [kind |-> "list", val |-> l]

\* A compiled pattern is a sequence of alternatives (the operands of |), and
\* an alternative a sequence of atoms, each matching at one position:
\*   start_or_nonword  (^|[^\w])      literal  an escaped character
\*   nonword_or_end    ([^\w]|$)      any      an unescaped full stop
Atom(op, ch) == [op |-> op, ch |-> ch]

\* A faulty variant: the entry is put in the pattern without re.escape, so a
\* full stop matches any character but a newline.
re_unescaped(shortform) ==
    [i \in DOMAIN shortform |->
        IF shortform[i] = "." THEN Atom("any", ".")
                              ELSE Atom("literal", shortform[i])]

\* re.escape(shortform): every character stands for itself.
re_escape(shortform) ==
    [i \in DOMAIN shortform |-> Atom("literal", shortform[i])]

\* r'(^|[^\w])%s([^\w]|$)' % re.escape(shortform)
ShortformPattern(shortform) ==
    <<Atom("start_or_nonword", "")>> \o re_escape(shortform)
        \o <<Atom("nonword_or_end", "")>>

\* '|'.join(...): the alternatives; joining nothing gives the empty pattern,
\* which has one alternative without atoms.
JoinAlternatives(alternatives) ==
    IF Len(alternatives) = 0 THEN <<<<>>>> ELSE alternatives

\* The pattern filter_paragraphs builds from contains; a str is one entry.
Pattern(contains) ==
    IF contains.kind = "None" THEN <<<<>>>>
    ELSE LET entries == IF contains.kind = "str" THEN <<contains.val>>
                                                 ELSE contains.val
         IN JoinAlternatives(
                [i \in DOMAIN entries |-> ShortformPattern(entries[i])])

\* $ matches at the end of the string and before a newline that ends it.
AtEnd(string, pos) ==
    \/ pos = Len(string) + 1
    \/ pos = Len(string) /\ string[pos] = "\n"

\* Whether atoms k.. of an alternative match the string from position pos.
RECURSIVE MatchFrom(_, _, _, _)
MatchFrom(atoms, k, string, pos) ==
    IF k > Len(atoms) THEN TRUE
    ELSE LET op == atoms[k].op
             here == pos <= Len(string)
         IN CASE op = "literal" ->
                   /\ here /\ string[pos] = atoms[k].ch
                   /\ MatchFrom(atoms, k + 1, string, pos + 1)
              [] op = "any" ->
                   /\ here /\ string[pos] # "\n"
                   /\ MatchFrom(atoms, k + 1, string, pos + 1)
              [] op = "start_or_nonword" ->
                   \/ pos = 1 /\ MatchFrom(atoms, k + 1, string, pos)
                   \/ /\ here /\ ~ IsWord(string[pos])
                      /\ MatchFrom(atoms, k + 1, string, pos + 1)
              [] op = "nonword_or_end" ->
                   \/ /\ here /\ ~ IsWord(string[pos])
                      /\ MatchFrom(atoms, k + 1, string, pos + 1)
                   \/ AtEnd(string, pos)
                        /\ MatchFrom(atoms, k + 1, string, pos)

\* re.search(pattern, string): some alternative matches from some position.
re_search(pattern, string) ==
    \E k \in DOMAIN pattern, pos \in 1..(Len(string) + 1) :
        MatchFrom(pattern[k], 1, string, pos)

\* '\n'.join(strings)
RECURSIVE join(_)
join(strings) ==
    IF Len(strings) = 0 THEN <<>>
    ELSE IF Len(strings) = 1 THEN strings[1]
    ELSE strings[1] \o <<"\n">> \o join(Tail(strings))

\* filter_paragraphs(paragraphs, contains)
filter_paragraphs(paragraphs, contains) ==
    LET pattern == Pattern(contains)
        keeps(p) == re_search(pattern, p)
    IN join(SelectSeq(paragraphs, keeps)) \o <<"\n">>

\* ----------------------------------------- calls of filter_paragraphs
\* The paragraph lists: none, one paragraph, or one paragraph followed by
\* one of a few second paragraphs.
SecondParagraphs == <<<<>>, <<"a">>, <<"a", "A">>>>

ParagraphLists ==
    {<<>>} \cup {<<p>> : p \in Str(MaxParLen)}
      \cup {<<p, SecondParagraphs[i]>> :
               p \in Str(MaxParLen), i \in DOMAIN SecondParagraphs}

\* The second entry of a two-entry contains.
SecondEntries == <<<<>>, <<"a">>, <<".">>>>

EntryLists ==
    {<<>>} \cup {<<s>> : s \in Str(MaxEntryLen)}
      \cup {<<s, SecondEntries[i]>> :
               s \in Str(MaxEntryLen), i \in DOMAIN SecondEntries}

NotCalled == [called |-> FALSE, text |-> <<>>]

InitFilterWith(paragraphs, contains) ==
    /\ fp_paragraphs = paragraphs
    /\ fp_contains = contains
    /\ fp_result = NotCalled

InitFilter ==
    /\ DbIdle /\ TextIdle /\ ApiIdle /\ AsmIdle
    /\ \E paragraphs \in ParagraphLists :
          \/ InitFilterWith(paragraphs, None)
          \/ \E s \in Str(MaxEntryLen) :
                InitFilterWith(paragraphs, StrArg(s))
          \/ \E l \in EntryLists : InitFilterWith(paragraphs, ListArg(l))

FilterParagraphs ==
    /\ UNCHANGED <<dbVars, textVars, apiVars, asmVars>>
    /\ ~ fp_result.called
    /\ fp_result' = [called |-> TRUE,
                     text |-> filter_paragraphs(fp_paragraphs, fp_contains)]
    /\ UNCHANGED <<fp_paragraphs, fp_contains>>

NextFilter == FilterParagraphs

\* --------------------------------------------------- api.TextContent
\* A dict is a function on its keys.
EmptyDict == [d \in {} |-> <<>>]

\* json.loads(content): the paragraph list a content cell holds.
json_loads(content) == content[2]

\* The dict __init__ fills for one text_type: rows are taken in order, a
\* later row of the same text_ref_id replaces the earlier one.
Bucket(rows, text_type) ==
    LET of_type == {i \in DOMAIN rows : rows[i].text_type = text_type}
        LastRow(d) ==
            CHOOSE i \in of_type :
                /\ rows[i].text_ref_id = d
                /\ \A j \in of_type : rows[j].text_ref_id = d => j <= i
    IN [d \in {rows[i].text_ref_id : i \in of_type} |->
            json_loads(rows[LastRow(d)].content)]

\* TextContent.__init__(content_rows)
TextContent_init(rows) ==
    [processed |-> FALSE,
     fulltexts |-> Bucket(rows, "fulltext"),
     abstracts |-> Bucket(rows, "abstract"),
     titles |-> Bucket(rows, "title")]

\* `for p in paragraphs`: a list yields its paragraphs; a str (the content
\* of a TextContent that has been processed) yields its characters.
Iterate(content, is_str) ==
    IF is_str THEN [i \in DOMAIN content |-> <<content[i]>>] ELSE content

\* A faulty variant: a text is kept when it is not empty.
NotEmpty(text) == Len(text) > 0

\* if len(text) > 1
LongerThanOne(text) == Len(text) > 1

\* {id: filter_paragraphs(paragraphs, contains) ...}, then the entries whose
\* text is longer than one character.
ProcessBucket(bucket, contains, is_str) ==
    LET texts == [d \in DOMAIN bucket |->
                     filter_paragraphs(Iterate(bucket[d], is_str), contains)]
    IN [d \in {x \in DOMAIN bucket : LongerThanOne(texts[x])} |-> texts[d]]

\* TextContent.__len__(self)
TextContent_len(self) ==
    Cardinality(DOMAIN self.fulltexts) + Cardinality(DOMAIN self.abstracts)
        + Cardinality(DOMAIN self.titles)

\* A faulty variant: `if not text_types`, so that an empty collection selects
\* every text_type as None does.
ListOfOrAllWhenEmpty(text_types) ==
    IF text_types.kind = "None" \/ text_types.val = <<>>
      THEN <<"fulltext", "abstract", "title">>
      ELSE text_types.val

\* The argument text_types: None or a collection of names.
ListOf(text_types) ==
    IF text_types.kind = "None" THEN <<"fulltext", "abstract", "title">>
                                ELSE text_types.val

In(name, list) == \E i \in DOMAIN list : list[i] = name

\* A faulty variant: no guard, every call processes.
NeverProcessed(flag) == FALSE

\* if self.processed: return
AlreadyProcessed(flag) == flag

\* TextContent.process(self, contains, text_types)
process(self, contains, text_types) ==
    IF AlreadyProcessed(self.processed) THEN self
    ELSE LET names == ListOf(text_types)
             Do(name, bucket) ==
                 IF In(name, names)
                   THEN ProcessBucket(bucket, contains, self.processed)
                   ELSE EmptyDict
         IN [processed |-> TRUE,
             fulltexts |-> Do("fulltext", self.fulltexts),
             abstracts |-> Do("abstract", self.abstracts),
             titles |-> Do("title", self.titles)]

\* ------------------------------------------- calls on a TextContent
\* At most MaxRows rows are given to the constructor.
MaxRows == 2

\* text_ref_ids of the rows.
TextRefIds == {1, 2}

\* Paragraph lists of the rows: none, empty paragraphs, one and two
\* paragraphs.
Contents ==
    <<<<>>, <<<<>>>>, <<<<>>, <<>>>>, <<<<"a">>>>,
      <<<<"A", " ", "a">>, <<"a", "A">>>>>>

ContentRow(d, text_type, c) ==
    [text_ref_id |-> d, text_type |-> text_type,
     content |-> <<"json", Contents[c]>>]

\* The row lists, up to a renaming of the text_ref_ids: the first row is of
\* text_ref_id 1.
ContentRowLists ==
    UNION {{rows \in [1..n -> {ContentRow(d, t, c) :
                                  d \in TextRefIds, t \in TextTypes,
                                  c \in DOMAIN Contents}] :
               n >= 1 => rows[1].text_ref_id = 1} : n \in 0..MaxRows}

\* The values of contains and text_types the calls are made with.
ContainsArgs ==
    <<None, ListArg(<<>>), StrArg(<<"a">>), ListArg(<<<<>>>>),
      ListArg(<<<<".">>, <<"A">>>>)>>

TextTypesArgs ==
    <<None, ListArg(<<"fulltext">>), ListArg(<<"title", "abstract">>),
      ListArg(<<"fulltexts", "titles">>), ListArg(<<>>)>>

\* No call of process yet.
NoCall == [calls |-> "none", contains |-> None, text_types |-> None]

Self ==
    [processed |-> processed, fulltexts |-> fulltexts,
     abstracts |-> abstracts, titles |-> titles]

InitText ==
    /\ DbIdle /\ FilterIdle /\ ApiIdle /\ AsmIdle
    /\ content_rows \in ContentRowLists
    /\ LET self == TextContent_init(content_rows) IN
          /\ processed = self.processed
          /\ fulltexts = self.fulltexts
          /\ abstracts = self.abstracts
          /\ titles = self.titles
    /\ first_call = NoCall

\* One call self.process(contains, text_types).  first_call keeps the
\* arguments of the first call and whether a later call repeated them.
Process ==
    /\ UNCHANGED <<dbVars, filterVars, apiVars, asmVars>>
    /\ \E c \in DOMAIN ContainsArgs, t \in DOMAIN TextTypesArgs :
          LET self == process(Self, ContainsArgs[c], TextTypesArgs[t]) IN
             /\ processed' = self.processed
             /\ fulltexts' = self.fulltexts
             /\ abstracts' = self.abstracts
             /\ titles' = self.titles
             /\ first_call' =
                  IF first_call.calls = "none"
                    THEN [calls |-> "one", contains |-> ContainsArgs[c],
                          text_types |-> TextTypesArgs[t]]
                  ELSE IF /\ first_call.contains.kind = ContainsArgs[c].kind
                          /\ first_call.contains.val = ContainsArgs[c].val
                          /\ first_call.text_types.kind
                               = TextTypesArgs[t].kind
                          /\ first_call.text_types.val = TextTypesArgs[t].val
                    THEN [first_call EXCEPT !.calls =
                             IF @ = "one" THEN "same" ELSE @]
                    ELSE [first_call EXCEPT !.calls = "different"]
    /\ UNCHANGED content_rows

NextText == Process

\* ------------------------------------------- claims on the selection
\* The priority orders as the documentation states them, best first.
FulltextOrder ==
    <<"pmc_oa", "manuscripts", "cord19_pmc_xml", "elsevier", "cord19_pdf">>
AbstractOrder == <<"pubmed", "cord19_abstract">>

\* The place of a source in an order; a source the order does not name comes
\* after all it names.
PlaceIn(order, source) ==
    IF \E i \in DOMAIN order : order[i] = source
      THEN CHOOSE i \in DOMAIN order : order[i] = source
      ELSE Len(order) + 1

DocHas(d, type) == HasType(candidates, d, type)

BestContentRows(d) == {b \in best_content : b.text_ref_id = d}

AfterDeleteDuplicateFulltexts ==
    pc \in {"delete_duplicate_abstracts", "combine_abstracts_with_titles",
            "delete_abstracts", "failed"}

AfterDeleteDuplicateAbstracts ==
    pc \in {"combine_abstracts_with_titles", "delete_abstracts", "failed"}

\* C1: every best_content row of a document that has a fulltext candidate has
\* text_type 'fulltext', whatever abstract and title candidates it also has;
\* and once fulltexts_and_titles has been loaded without an exception every
\* such document has its row.
C1_FulltextDocumentHasFulltextRow ==
    /\ \A b \in best_content \cup to_best_content :
          DocHas(b.text_ref_id, "fulltext") => b.text_type = "fulltext"
    /\ (pc = "load_fulltexts_and_titles" /\ raised = NoError) =>
          \A d \in Docs : DocHas(d, "fulltext") => BestContentRows(d) # {}

\* A document with a fulltext, an abstract and a title candidate, loaded.
C1_Witness ==
    \E b \in best_content :
        /\ b.text_type = "fulltext"
        /\ DocHas(b.text_ref_id, "abstract")
        /\ DocHas(b.text_ref_id, "title")

\* C2: once the abstracts have been loaded into the empty table, every
\* document with an abstract and a title candidate and no fulltext candidate
\* has a best_content row of text_type 'abstract' whose content is the list
\* [title content, abstract content].  (The later load of fulltexts and titles
\* adds no combined row and removes none.)
C2_AbstractAndTitleAreCombined ==
    (pc = "load_abstracts" /\ loaded = {"abstracts"}) =>
        \A d \in Docs :
            (DocHas(d, "abstract") /\ DocHas(d, "title")
                /\ ~ DocHas(d, "fulltext")) =>
            \E b \in BestContentRows(d) :
                /\ b.text_type = "abstract"
                /\ b.text_content_id2 # Null
                /\ \E a \in RowsOf(candidates, d, "abstract"),
                      t \in RowsOf(candidates, d, "title") :
                      b.content
                        = <<"json", <<Unpack(t.content), Unpack(a.content)>>>>

\* C3: when the script has ended, best_content holds exactly one row for
\* every document that has a candidate record and none for the others.
C3_ExactlyOneRowPerDocument ==
    Terminated =>
        \A d \in Docs :
            IF \E c \in candidates : c.text_ref_id = d
              THEN Cardinality(BestContentRows(d)) = 1
              ELSE BestContentRows(d) = {}

\* C4: after delete_duplicate_fulltexts every document with fulltext
\* candidates keeps exactly one of them, and it is one whose source comes
\* first, among the document's fulltext candidates, in the order pmc_oa,
\* manuscripts, cord19_pmc_xml, elsevier, cord19_pdf, any other source.
C4_BestFulltextSourceSurvives ==
    AfterDeleteDuplicateFulltexts =>
        \A d \in Docs :
            DocHas(d, "fulltext") =>
            \E w \in RowsOf(candidates, d, "fulltext") :
                /\ RowsOf(text_content, d, "fulltext") = {w}
                /\ \A c \in RowsOf(candidates, d, "fulltext") :
                      PlaceIn(FulltextOrder, w.source)
                        <= PlaceIn(FulltextOrder, c.source)

\* A document with a pmc_oa and an elsevier fulltext keeps the pmc_oa one.
C4_Witness ==
    /\ pc = "delete_duplicate_abstracts"
    /\ \E d \in Docs :
          /\ \E c \in RowsOf(candidates, d, "fulltext") : c.source = "elsevier"
          /\ \E c \in RowsOf(candidates, d, "fulltext") : c.source = "pmc_oa"
          /\ \A r \in RowsOf(text_content, d, "fulltext") :
                r.source = "pmc_oa"
          /\ Cardinality(RowsOf(text_content, d, "fulltext")) = 1

\* C5: after delete_duplicate_abstracts every document without fulltext that
\* has abstract candidates keeps exactly one of them, one whose source comes
\* first among the document's abstract candidates in the order pubmed,
\* cord19_abstract, any other source, whatever titles the document has.
C5_BestAbstractSourceSurvives ==
    AfterDeleteDuplicateAbstracts =>
        \A d \in Docs :
            (DocHas(d, "abstract") /\ ~ DocHas(d, "fulltext")) =>
            \E w \in RowsOf(candidates, d, "abstract") :
                /\ RowsOf(text_content, d, "abstract") = {w}
                /\ \A c \in RowsOf(candidates, d, "abstract") :
                      PlaceIn(AbstractOrder, w.source)
                        <= PlaceIn(AbstractOrder, c.source)

\* --------------------------------------------- claims on the loading
\* The candidate records a best_content row derives from.
Contributors(b) == {b.text_content_id1, b.text_content_id2} \ {Null}

InsertionOps ==
    {"load_abstracts", "load_fulltexts_and_titles",
     "make_compressed_best_content_table"}

\* C6: in every state of either store, best_content has at most one row per
\* text_ref_id and no candidate record contributes to two rows.
C6_OneRowPerDocumentAndContributor ==
    \A table \in {best_content, to_best_content} :
        \A b1, b2 \in table :
            (\/ b1.text_ref_id = b2.text_ref_id
             \/ Contributors(b1) \cap Contributors(b2) # {}) => b1 = b2

\* A failed insertion into a table that holds a combined row and another row.
C6_Witness ==
    /\ raised = "IntegrityError"
    /\ Cardinality(best_content) >= 2
    /\ \E b \in best_content : b.text_content_id2 # Null
    /\ to_best_content # {}

\* C7: an insertion (either load, or make_compressed_best_content_table)
\* raises nothing, leaves the rows already present in place, and changes
\* nothing when it loads a generator that was loaded before.
C7_InsertionIgnoresConflicts ==
    [][pc' \in InsertionOps =>
        /\ raised' = NoError
        /\ best_content \subseteq best_content'
        /\ to_best_content \subseteq to_best_content'
        /\ (pc' = "load_abstracts" /\ "abstracts" \in loaded) =>
              best_content' = best_content
        /\ (pc' = "load_fulltexts_and_titles"
              /\ "fulltexts_and_titles" \in loaded) =>
              best_content' = best_content]_vars

\* ------------------------------------------ claims on the text model
\* The entries of contains as the documentation reads them: a str is one
\* entry, None has none.
EntriesOf(contains) ==
    IF contains.kind = "None" THEN <<>>
    ELSE IF contains.kind = "str" THEN <<contains.val>>
    ELSE contains.val

\* entry occurs in paragraph after i characters.
OccursAt(entry, paragraph, i) ==
    /\ i + Len(entry) <= Len(paragraph)
    /\ SubSeq(paragraph, i + 1, i + Len(entry)) = entry

\* ... with a non-word character or the start of the paragraph before it and
\* a non-word character or the end of the paragraph after it.
OccursBounded(entry, paragraph) ==
    \E i \in 0..Len(paragraph) :
        /\ OccursAt(entry, paragraph, i)
        /\ i = 0 \/ ~ IsWord(paragraph[i])
        /\ \/ i + Len(entry) = Len(paragraph)
           \/ ~ IsWord(paragraph[i + Len(entry) + 1])

SomeEntryOccursBounded(paragraph, contains) ==
    \E k \in DOMAIN EntriesOf(contains) :
        OccursBounded(EntriesOf(contains)[k], paragraph)

NoEntries(contains) == Len(EntriesOf(contains)) = 0

\* Every string of the list followed by a newline, in order.
RECURSIVE EachFollowedByNewline(_)
EachFollowedByNewline(strings) ==
    IF Len(strings) = 0 THEN <<>>
    ELSE Head(strings) \o <<"\n">> \o EachFollowedByNewline(Tail(strings))

\* The text of the paragraphs that satisfy Keeps: joined by newlines, one
\* newline after the last.
TextOf(paragraphs, Keeps(_)) ==
    IF Len(SelectSeq(paragraphs, Keeps)) = 0 THEN <<"\n">>
    ELSE EachFollowedByNewline(SelectSeq(paragraphs, Keeps))

\* The paragraph lists TextContent held before process, and holds now.
Before(name) == Bucket(content_rows, name)

Now(name) ==
    CASE name = "fulltext" -> fulltexts
      [] name = "abstract" -> abstracts
      [] name = "title" -> titles

Requested(name) ==
    \/ first_call.text_types.kind = "None"
    \/ In(name, first_call.text_types.val)

\* The paragraphs of a document that match the first call's contains: all of
\* them when contains is empty or absent.
Matching(paragraphs) ==
    LET Keeps(p) == \/ NoEntries(first_call.contains)
                    \/ SomeEntryOccursBounded(p, first_call.contains)
    IN SelectSeq(paragraphs, Keeps)

\* C8: once process has been called, no later call, whatever its arguments,
\* changes fulltexts, abstracts, titles or processed.
C8_ProcessIsOneShot ==
    [][processed = TRUE =>
          /\ fulltexts' = fulltexts /\ abstracts' = abstracts
          /\ titles' = titles /\ processed' = processed]_vars

\* A TextContent that holds text after its first process has been called
\* again with other arguments.
C8_Witness ==
    /\ processed = TRUE
    /\ first_call.calls = "different"
    /\ \E name \in TextTypes : DOMAIN Now(name) # {}

\* C9 as stated: after process, every requested bucket maps exactly the
\* documents with at least one matching paragraph to their matching
\* paragraphs, in order, each followed by a newline.
C9_ExactlyDocumentsWithAMatch ==
    processed = TRUE =>
        \A name \in TextTypes : Requested(name) =>
            /\ DOMAIN Now(name) =
                 {d \in DOMAIN Before(name) :
                     Len(Matching(Before(name)[d])) >= 1}
            /\ \A d \in DOMAIN Now(name) :
                  Now(name)[d] = EachFollowedByNewline(
                                     Matching(Before(name)[d]))

\* C9 amended: after process, every requested bucket maps exactly the
\* documents whose matching paragraphs joined by newlines are not the empty
\* string (at least one matching paragraph, and not a single empty one) to
\* their matching paragraphs, in order, each followed by a newline.
C9_DocumentsWithNonEmptyText ==
    processed = TRUE =>
        \A name \in TextTypes : Requested(name) =>
            /\ DOMAIN Now(name) =
                 {d \in DOMAIN Before(name) :
                     /\ Len(Matching(Before(name)[d])) >= 1
                     /\ ~ (/\ Len(Matching(Before(name)[d])) = 1
                           /\ Len(Matching(Before(name)[d])[1]) = 0)}
            /\ \A d \in DOMAIN Now(name) :
                  Now(name)[d] = EachFollowedByNewline(
                                     Matching(Before(name)[d]))

\* A requested bucket that kept a document without one of its paragraphs
\* and dropped another document, after a call with entries in contains.
C9_Witness ==
    /\ processed = TRUE
    /\ ~ NoEntries(first_call.contains)
    /\ \E name \in TextTypes :
          /\ Requested(name)
          /\ \E d \in DOMAIN Now(name) :
                Len(Matching(Before(name)[d])) < Len(Before(name)[d])
          /\ DOMAIN Before(name) \ DOMAIN Now(name) # {}

\* C10 as stated: the returned text is made of exactly the paragraphs in
\* which some entry of contains occurs between non-word characters or string
\* boundaries.
C10_KeepsIffSomeEntryOccurs ==
    fp_result.called =>
        LET Keeps(p) == SomeEntryOccursBounded(p, fp_contains)
        IN fp_result.text = TextOf(fp_paragraphs, Keeps)

\* C10 amended: when contains has at least one entry the returned text is
\* made of exactly the paragraphs in which some entry occurs between
\* non-word characters or string boundaries; when contains is None or empty
\* it is made of all the paragraphs.
C10_KeepsIffSomeEntryOccursOrNoEntries ==
    fp_result.called =>
        LET Keeps(p) == \/ NoEntries(fp_contains)
                        \/ SomeEntryOccursBounded(p, fp_contains)
        IN fp_result.text = TextOf(fp_paragraphs, Keeps)

\* Two entries and two paragraphs: the first paragraph is kept for the second
\* entry alone, the second is dropped although an entry occurs in it, next
\* to a word character.
C10_Witness ==
    /\ fp_result.called
    /\ fp_contains.kind = "list" /\ Len(fp_contains.val) = 2
    /\ Len(fp_paragraphs) = 2
    /\ ~ OccursBounded(fp_contains.val[1], fp_paragraphs[1])
    /\ OccursBounded(fp_contains.val[2], fp_paragraphs[1])
    /\ \E k \in 1..2, i \in 0..Len(fp_paragraphs[2]) :
          /\ Len(fp_contains.val[k]) > 0
          /\ OccursAt(fp_contains.val[k], fp_paragraphs[2], i)
    /\ fp_result.text = fp_paragraphs[1] \o <<"\n">>

\* The documents process keeps in a bucket it was asked for: those whose
\* matching paragraphs joined by newlines are not the empty string.
KeptDocuments(name) ==
    {d \in DOMAIN Before(name) :
        /\ Len(Matching(Before(name)[d])) >= 1
        /\ ~ (/\ Len(Matching(Before(name)[d])) = 1
              /\ Len(Matching(Before(name)[d])[1]) = 0)}

\* The exact type name is a member of the text_types collection of the first
\* call.
MemberOfTextTypes(name) ==
    /\ first_call.text_types.kind = "list"
    /\ \E i \in DOMAIN first_call.text_types.val :
          first_call.text_types.val[i] = name

\* C11: after the first process call a bucket is empty whenever its exact
\* type name is not a member of the text_types collection; a collection with
\* none of the three names (other names only, or empty) leaves a TextContent
\* of length 0; text_types = None keeps all three buckets, each with the
\* documents that have text left after filtering.
C11_UnrequestedBucketsAreEmpty ==
    processed = TRUE =>
        /\ first_call.text_types.kind = "list" =>
              /\ \A name \in TextTypes :
                    ~ MemberOfTextTypes(name) => DOMAIN Now(name) = {}
              /\ (\A name \in TextTypes : ~ MemberOfTextTypes(name))
                    => TextContent_len(Self) = 0
        /\ first_call.text_types.kind = "None" =>
              \A name \in TextTypes : DOMAIN Now(name) = KeptDocuments(name)

\* A TextContent that held a fulltext with text in it has length 0 after
\* process was called with an empty text_types collection.
C11_Witness ==
    /\ processed = TRUE
    /\ first_call.text_types.kind = "list"
    /\ first_call.text_types.val = <<>>
    /\ NoEntries(first_call.contains)
    /\ \E d \in DOMAIN Before("fulltext") :
          Len(Before("fulltext")[d]) >= 1 /\ Len(Before("fulltext")[d][1]) >= 1
    /\ TextContent_len(Self) = 0

\* ------------------------------------------------------ the MeSH codec
\* A Python str is the sequence of its characters (as above).  The decimal
\* digits in order: Digits[v + 1] is the digit of value v.
Digits == <<"0", "1", "2", "3", "4", "5", "6", "7", "8", "9">>

IsDigit(ch) == \E v \in 0..9 : Digits[v + 1] = ch

DigitValue(ch) == CHOOSE v \in 0..9 : Digits[v + 1] = ch

\* A call that returned `val`, and a call that raised `error`.
Returned(val) == [raised |-> NoError, val |-> val]
Raised(error) == [raised |-> error, val |-> None]

\* A returned tuple (or list) of values.
Tuple(t) == [kind |-> "tuple", val |-> t]

\* The value of a string of digits, most significant first.
RECURSIVE DecimalValue(_)
DecimalValue(digits) ==
    IF Len(digits) = 0 THEN 0
    ELSE 10 * DecimalValue(SubSeq(digits, 1, Len(digits) - 1))
           + DigitValue(digits[Len(digits)])

\* int(string) on strings of digits, signs and letters: an optional sign and
\* at least one digit, or ValueError.  (Blanks and underscores, which int
\* also accepts in places, are not among the characters used here.)
int(string) ==
    LET signed == Len(string) >= 1 /\ string[1] \in {"+", "-"}
        digits == IF signed THEN Tail(string) ELSE string
    IN IF Len(digits) = 0 \/ \E i \in DOMAIN digits : ~ IsDigit(digits[i])
         THEN Raised("ValueError")
         ELSE Returned(IF signed /\ string[1] = "-"
                         THEN 0 - DecimalValue(digits)
                         ELSE DecimalValue(digits))

\* str(n) of an integer.
RECURSIVE str(_)
str(n) ==
    IF n < 0 THEN <<"-">> \o str(0 - n)
    ELSE IF n < 10 THEN <<Digits[n + 1]>>
    ELSE str(n \div 10) \o <<Digits[(n % 10) + 1]>>

\* string.zfill(width): zeros on the left up to `width` characters, after
\* the sign if there is one.
RECURSIVE zfill(_, _)
zfill(string, width) ==
    IF Len(string) >= width THEN string
    ELSE IF Len(string) >= 1 /\ string[1] \in {"+", "-"}
      THEN <<string[1]>> \o zfill(Tail(string), width - 1)
    ELSE zfill(<<"0">> \o string, width)

\* A faulty variant: the slice starts one character late.
AfterSecondCharacter(mesh_id) == SubSeq(mesh_id, 3, Len(mesh_id))

\* mesh_id[1:]
AfterFirstCharacter(mesh_id) == SubSeq(mesh_id, 2, Len(mesh_id))

\* A faulty variant: the test of the first character is missing.
AnyPrefixSupported(ch) == TRUE

\* mesh_id[0] in ['C', 'D']
Supported(ch) == ch \in {"C", "D"}

\* mesh_id_to_mesh_num(mesh_id)
mesh_id_to_mesh_num(mesh_id) ==
    IF Len(mesh_id) = 0 THEN Raised("IndexError")
    ELSE IF ~ Supported(mesh_id[1]) THEN Returned(None)
    ELSE LET is_concept == IF mesh_id[1] = "C" THEN 1 ELSE 0
             mesh_num == int(AfterFirstCharacter(mesh_id))
         IN IF mesh_num.raised # NoError THEN Raised(mesh_num.raised)
            ELSE Returned(Tuple(<<mesh_num.val, is_concept>>))

\* A faulty variant: the comparisons admit the threshold itself.
PaddedToSixUpToThreshold(prefix, mesh_num) ==
    IF prefix = "D" THEN mesh_num <= 66332 ELSE mesh_num <= 588418

\* Whether mesh_num_to_mesh_id pads to 6 digits (else to 9).
PaddedToSix(prefix, mesh_num) ==
    IF prefix = "D" THEN mesh_num < 66332 ELSE mesh_num < 588418

\* mesh_num_to_mesh_id(mesh_num, is_concept); is_concept is tested for truth.
mesh_num_to_mesh_id(mesh_num, is_concept) ==
    LET prefix == IF is_concept # 0 THEN "C" ELSE "D"
    IN Returned(<<prefix>> \o zfill(str(mesh_num),
                                    IF PaddedToSix(prefix, mesh_num)
                                      THEN 6 ELSE 9))

\* ------------------------------------------------------ api calls
\* What a call did: the exception it raised or the value it returned, and the
\* queries it sent to the store, in order.
Outcome(result, queries) ==
    [raised |-> result.raised, val |-> result.val, queries |-> queries]

\* No call yet.
NoApiCall == [name |-> "none", args |-> <<>>, outcome |-> Returned(None)]


\* The call the variables hold, when it is a call of mesh_id_to_mesh_num
\* (the calls that follow it are compared with it).
LastMeshIdToMeshNum ==
    IF call.name = "mesh_id_to_mesh_num"
      THEN [name |-> call.name, args |-> call.args,
            outcome |-> [raised |-> outcome.raised, val |-> outcome.val]]
      ELSE NoApiCall

\* The call `name(*args)`, made after the call `before`.
ApiCall(name, args, before) ==
    [name |-> name, args |-> args, before |-> before]

\* SELECT pmid_num FROM mesh_pmids WHERE mesh_num = ? AND is_concept = ? AND
\* major_topic = ?: the rows are read in rowid order, which is the order of
\* the sequence.
SelectPmidNums(mesh_pmids, mesh_num, is_concept, major_topic) ==
    LET Match(row) == /\ row.mesh_num = mesh_num
                      /\ row.is_concept = is_concept
                      /\ row.major_topic = major_topic
        rows == SelectSeq(mesh_pmids, Match)
    IN [i \in DOMAIN rows |-> rows[i].pmid_num]

\* get_pmids_for_mesh_term(mesh_id, major_topic): the outcome.  major_topic
\* is bound as the integer 1 (True) or 0 (False).
get_pmids_for_mesh_term(mesh_pmids, mesh_id, major_topic) ==
    LET mesh_num_is_concept == mesh_id_to_mesh_num(mesh_id) IN
    IF mesh_num_is_concept.raised # NoError
      THEN Outcome(mesh_num_is_concept, <<>>)
    ELSE IF mesh_num_is_concept.val.kind = "None"
      THEN Outcome(Returned(Tuple(<<>>)), <<>>)
    ELSE LET query == <<mesh_num_is_concept.val.val[1],
                        mesh_num_is_concept.val.val[2], major_topic>>
         IN Outcome(Returned(Tuple(SelectPmidNums(
                        mesh_pmids, query[1], query[2], query[3]))),
                    <<query>>)

\* The numbers of the MeSH ids: small ones, the two thresholds and their
\* predecessors, a number between them, and one of ten digits.
MeshNums == {0, 1, 66331, 66332, 100001, 588417, 588418, 1234567890}

\* The identifiers: a supported or an unsupported first character, then a
\* number as it is, in 6 or in 9 digits, or a tail that is not a number; and
\* the empty string.
MeshIds ==
    {<<>>}
    \cup {<<p>> \o zfill(str(n), w) :
              p \in {"C", "D", "X"}, n \in MeshNums, w \in {1, 6, 9}}
    \cup {<<p>> \o t : p \in {"C", "D", "X"},
                        t \in {<<>>, <<"x">>, <<"1", "x">>, <<"-", "5">>}}

\* The mesh_pmids tables: empty, and one with headings of both kinds.  A row
\* is (mesh_num, is_concept, major_topic, pmid_num).
MeshPmidsTables ==
    LET Row(mesh_num, is_concept, major_topic, pmid_num) ==
            [mesh_num |-> mesh_num, is_concept |-> is_concept,
             major_topic |-> major_topic, pmid_num |-> pmid_num]
    IN {<<>>,
        <<Row(1, 0, 1, 30), Row(66332, 0, 0, 31), Row(1, 1, 1, 32),
          Row(1, 0, 1, 33), Row(0, 0, 1, 34)>>}

\* ----------------------------- construction.tables.mesh (MEDLINE headings)
\* At most MaxCitations MedlineCitation elements are in a file.
MaxCitations == 2

\* The files: the MedlineCitation elements of each, in document order.  A
\* citation has a PMID and a MeshHeadingList, which is absent (None) or has
\* up to two headings; a heading is the attributes UI and MajorTopicYN of its
\* DescriptorName, and the UI is a descriptor, a supplementary concept, or
\* an identifier with another first character.
MedlineFiles ==
    LET Descriptor(ui, major_topic_yn) ==
            [UI |-> ui, MajorTopicYN |-> major_topic_yn]
        descriptor_names ==
            {Descriptor(<<"D">> \o zfill(str(1), 6), "Y"),
             Descriptor(<<"D">> \o zfill(str(66332), 9), "N"),
             Descriptor(<<"C">> \o zfill(str(1), 6), "N"),
             Descriptor(<<"X">> \o zfill(str(1), 6), "Y")}
        citations ==
            {[PMID |-> 30, MeshHeadingList |-> list] :
                list \in {None} \cup {ListArg(l) :
                    l \in UNION {[1..n -> descriptor_names] : n \in 0..2}}}
    IN UNION {[1..n -> citations] : n \in 0..MaxCitations}

\* The headings extract_info_from_medline_xml visits, in order: for every
\* citation that has a MeshHeadingList, each of its children with the pmid of
\* the citation.
RECURSIVE VisitedHeadings(_)
VisitedHeadings(elements) ==
    IF elements = <<>> THEN <<>>
    ELSE LET element == Head(elements)
             list == element.MeshHeadingList
             own == IF list.kind = "None" THEN <<>>
                    ELSE [i \in DOMAIN list.val |->
                             [pmid |-> element.PMID,
                              descriptor |-> list.val[i]]]
         IN own \o VisitedHeadings(Tail(elements))

\* extract_info_from_medline_xml(xml_path) on a file with the citations
\* `elements`.  For every heading, mesh_num, is_concept =
\* mesh_id_to_mesh_num(mesh_id): unpacking None raises TypeError (cannot
\* unpack non-iterable NoneType object), and the rows collected so far are
\* lost with the call.  Otherwise the row [mesh_num, is_concept,
\* major_topic, pmid] is appended, major_topic being MajorTopicYN == 'Y'.
extract_info_from_medline_xml(elements) ==
    LET visited == VisitedHeadings(elements)
        Converted(i) == mesh_id_to_mesh_num(visited[i].descriptor.UI)
        Fails(i) == Converted(i).raised # NoError
                        \/ Converted(i).val.kind = "None"
        failing == {i \in DOMAIN visited : Fails(i)}
        Row(i) == [mesh_num |-> Converted(i).val.val[1],
                   is_concept |-> Converted(i).val.val[2],
                   major_topic |-> visited[i].descriptor.MajorTopicYN = "Y",
                   pmid |-> visited[i].pmid]
    IN IF failing # {}
         THEN IF Converted(Min(failing)).raised # NoError
                THEN Raised(Converted(Min(failing)).raised)
                ELSE Raised("TypeError")
         ELSE Returned(ListArg([i \in DOMAIN visited |-> Row(i)]))

InitMesh ==
    /\ DbIdle /\ TextIdle /\ FilterIdle /\ AsmIdle
    /\ \E mesh_pmids \in MeshPmidsTables : store = [mesh_pmids |-> mesh_pmids]
    /\ call = [name |-> "none", args |-> <<>>, before |-> NoApiCall]
    /\ outcome = Outcome(Returned(None), <<>>)

MeshIdToMeshNum ==
    /\ UNCHANGED <<dbVars, textVars, filterVars, asmVars, store>>
    /\ \E mesh_id \in MeshIds :
          /\ call' = ApiCall("mesh_id_to_mesh_num", <<mesh_id>>,
                             LastMeshIdToMeshNum)
          /\ outcome' = Outcome(mesh_id_to_mesh_num(mesh_id), <<>>)

\* mesh_num_to_mesh_id on a pair of its own, or on the pair the call before
\* returned: mesh_num_to_mesh_id(*mesh_id_to_mesh_num(x)).
MeshNumToMeshId ==
    /\ UNCHANGED <<dbVars, textVars, filterVars, asmVars, store>>
    /\ \/ \E pair \in MeshNums \X {0, 1, 2} :
             /\ call' = ApiCall("mesh_num_to_mesh_id", pair, NoApiCall)
             /\ outcome' =
                  Outcome(mesh_num_to_mesh_id(pair[1], pair[2]), <<>>)
       \/ /\ call.name = "mesh_id_to_mesh_num"
          /\ outcome.raised = NoError
          /\ outcome.val.kind = "tuple"
          /\ call' = ApiCall("mesh_num_to_mesh_id", outcome.val.val,
                             LastMeshIdToMeshNum)
          /\ outcome' = Outcome(mesh_num_to_mesh_id(outcome.val.val[1],
                                                    outcome.val.val[2]),
                                <<>>)

GetPmidsForMeshTerm ==
    /\ UNCHANGED <<dbVars, textVars, filterVars, asmVars, store>>
    /\ \E mesh_id \in MeshIds, major_topic \in {0, 1} :
          /\ call' = ApiCall("get_pmids_for_mesh_term",
                             <<mesh_id, major_topic>>, NoApiCall)
          /\ outcome' = get_pmids_for_mesh_term(
                            store.mesh_pmids, mesh_id, major_topic)

\* The extraction reads a file and no state, so it is made once, first.
ExtractInfoFromMedlineXml ==
    /\ call.name = "none"
    /\ UNCHANGED <<dbVars, textVars, filterVars, asmVars, store>>
    /\ \E elements \in MedlineFiles :
          /\ call' = ApiCall("extract_info_from_medline_xml", <<elements>>,
                             NoApiCall)
          /\ outcome' = Outcome(extract_info_from_medline_xml(elements),
                                <<>>)

NextMesh ==
    \/ MeshIdToMeshNum
    \/ MeshNumToMeshId
    \/ GetPmidsForMeshTerm
    \/ ExtractInfoFromMedlineXml

\* ------------------------------------------------- batch lookups (api)
\* batch_size = 100000 in each of the three batch lookups.
batch_size == 100000

\* An id collection is given as a sequence of runs [lo, len]: the ids lo,
\* lo + 1, ..., lo + len - 1; the tuple the lookup makes of it is the runs
\* one after the other.  At most MaxRuns runs are given.
MaxRuns == 2

\* len(ids)
Count(ids) ==
    IF Len(ids) = 0 THEN 0
    ELSE LET Sum[k \in 0..Len(ids)] ==
                 IF k = 0 THEN 0 ELSE Sum[k - 1] + ids[k].len
         IN Sum[Len(ids)]

\* x in ids
HasId(ids, x) ==
    \E k \in DOMAIN ids : ids[k].lo <= x /\ x < ids[k].lo + ids[k].len

\* ids[start:stop], for 0 <= start: the positions start .. stop - 1 that
\* exist, counted from 0.
RECURSIVE SliceOf(_, _, _)
SliceOf(ids, start, stop) ==
    IF Len(ids) = 0 \/ stop <= 0 THEN <<>>
    ELSE LET run == Head(ids)
             a == Max({start, 0})
             b == Min({stop, run.len})
         IN (IF a < b THEN <<[lo |-> run.lo + a, len |-> b - a]>> ELSE <<>>)
            \o SliceOf(Tail(ids), start - run.len, stop - run.len)

\* list(range(start, stop, step)), for step > 0.
RECURSIVE range(_, _, _)
range(start, stop, step) ==
    IF start >= stop THEN <<>>
    ELSE <<start>> \o range(start + step, stop, step)

\* The queries of a batch lookup: for idx in range(0, len(ids), batch_size)
\* one query with the parameters ids[idx:idx + batch_size].
Chunks(ids) ==
    LET starts == range(0, Count(ids), batch_size)
    IN [k \in DOMAIN starts |->
           [idx |-> starts[k],
            ids |-> SliceOf(ids, starts[k], starts[k] + batch_size)]]

\* dict.update over (key, value) rows taken in order: the last row of a key
\* gives its value.
DictOf(rows, key, value) ==
    [k \in {rows[i][key] : i \in DOMAIN rows} |->
        rows[CHOOSE i \in DOMAIN rows :
                 /\ rows[i][key] = k
                 /\ \A j \in DOMAIN rows : rows[j][key] = k => j <= i][value]]

\* The rows every query of `chunks` yields, one query after the other:
\* SELECT ... FROM table WHERE column IN (...).  A table is the sequence of
\* its rows in rowid order, and a query yields the rows it selects in this
\* order, or grouped by `column` and in this order within a group when it
\* goes through an index on that column.
RECURSIVE RowsOfChunks(_, _, _)
RowsOfChunks(table, column, chunks) ==
    IF Len(chunks) = 0 THEN <<>>
    ELSE LET Selected(row) == HasId(Head(chunks).ids, row[column])
         IN SelectSeq(table, Selected)
            \o RowsOfChunks(table, column, Tail(chunks))

Dict(d) == [kind |-> "dict", val |-> d]

\* get_text_ref_ids_for_pmids(pmids), with its helper: SELECT pmid,
\* text_ref_id FROM pmid_text_refs WHERE pmid IN (...) per chunk.
get_text_ref_ids_for_pmids(pmid_text_refs, pmids) ==
    Outcome(Returned(Dict(DictOf(
                RowsOfChunks(pmid_text_refs, "pmid", Chunks(pmids)),
                "pmid", "text_ref_id"))),
            Chunks(pmids))

\* get_pmids_for_text_ref_ids(text_ref_ids), with its helper: SELECT
\* text_ref_id, pmid FROM pmid_text_refs WHERE text_ref_id IN (...) AND pmid
\* IS NOT NULL per chunk.
get_pmids_for_text_ref_ids(pmid_text_refs, text_ref_ids) ==
    LET NotNull(row) == row.pmid # Null
    IN Outcome(Returned(Dict(DictOf(
                   RowsOfChunks(SelectSeq(pmid_text_refs, NotNull),
                                "text_ref_id", Chunks(text_ref_ids)),
                   "text_ref_id", "pmid"))),
               Chunks(text_ref_ids))

\* zlib.compress(content.encode("utf-8")): the bytes a compressed store
\* holds in place of the JSON text.
zlib_compress(content) == <<"zlib", content>>

\* zlib.decompress(data).decode("utf-8")
zlib_decompress(data) == data[2]

\* isinstance(content, bytes)
IsBytes(content) == content[1] = "zlib"

\* get_paragraphs_for_text_ref_ids(text_ref_ids), with its helper: SELECT
\* text_ref_id, text_type, content FROM best_content WHERE text_ref_id IN
\* (...) per chunk.  A row the cursor yields is a tuple, so for a row whose
\* content is bytes the assignment row[2] = ... raises TypeError, and the
\* lookup ends in the query that yields the row.
get_paragraphs_for_text_ref_ids(table, text_ref_ids) ==
    LET chunks == Chunks(text_ref_ids)
        YieldsBytes(k) ==
            \E i \in DOMAIN table :
                /\ HasId(chunks[k].ids, table[i].text_ref_id)
                /\ IsBytes(table[i].content)
        raising == {k \in DOMAIN chunks : YieldsBytes(k)}
    IN IF raising # {}
         THEN Outcome(Raised("TypeError"), SubSeq(chunks, 1, Min(raising)))
         ELSE Outcome(Returned([kind |-> "TextContent",
                                val |-> TextContent_init(RowsOfChunks(
                                    table, "text_ref_id", chunks))]),
                      chunks)

\* --------------------------------------------- single-key lookups (api)
\* The lookups that send one query with one parameter: the table they read,
\* the column they compare with the parameter, the column they select,
\* whether the parameter is str(key), and whether they return the first row
\* or None in place of the list.
SingleKeyLookups ==
    LET Lookup(name, table, where, select, as_str, first) ==
            [name |-> name, table |-> table, where |-> where,
             select |-> select, as_str |-> as_str, first |-> first]
    IN {Lookup("get_text_ref_ids_for_agent_text", "agent_texts",
               "agent_text", "text_ref_id", FALSE, FALSE),
        Lookup("get_entrez_pmids_for_hgnc", "entrez_pmids",
               "hgnc_id", "pmid", TRUE, FALSE),
        Lookup("get_entrez_pmids_for_uniprot", "entrez_pmids",
               "uniprot_id", "pmid", FALSE, FALSE),
        Lookup("get_entrez_pmids", "entrez_pmids",
               "entrez_id", "pmid", FALSE, FALSE),
        Lookup("get_taxon_id_for_uniprot", "entrez_pmids",
               "uniprot_id", "taxon_id", FALSE, TRUE)}

\* SELECT select FROM table WHERE where = ?, fetchall(), then row[0] of each
\* row.  A str parameter compared with an INTEGER column is converted to the
\* number it spells.
SelectWhere(table, where, param, select, as_str) ==
    LET Match(row) ==
            IF as_str THEN row[where] = int(param).val
                      ELSE row[where] = param
        rows == SelectSeq(table, Match)
    IN [i \in DOMAIN rows |-> rows[i][select]]

\* A faulty variant: res[0][0] whether or not there is a row.
FirstOrIndexError(res) ==
    IF Len(res) > 0 THEN Returned([kind |-> "int", val |-> res[1]])
                    ELSE Raised("IndexError")

\* res[0][0] if res else None
FirstOrNone(res) ==
    IF Len(res) > 0 THEN Returned([kind |-> "int", val |-> res[1]])
                    ELSE Returned(None)

\* The call lookup.name(key) on the store.
single_key_lookup(tables, lookup, key) ==
    LET param == IF lookup.as_str THEN str(key) ELSE key
        res == SelectWhere(tables[lookup.table], lookup.where, param,
                           lookup.select, lookup.as_str)
    IN Outcome(IF lookup.first THEN FirstOrNone(res)
                               ELSE Returned(Tuple(res)),
               <<param>>)

\* get_mesh_terms_for_grounding(namespace, identifier): the curie is
\* namespace:identifier, and each row (mesh_num, is_concept) of mesh_xrefs
\* with this curie is returned as mesh_num_to_mesh_id(*row), a str.
get_mesh_terms_for_grounding(mesh_xrefs, namespace, identifier) ==
    LET curie == namespace \o ":" \o identifier
        Match(row) == row.curie = curie
        res == SelectSeq(mesh_xrefs, Match)
    IN Outcome(Returned(Tuple(
                   [i \in DOMAIN res |->
                       StrArg(mesh_num_to_mesh_id(res[i].mesh_num,
                                                  res[i].is_concept).val)])),
               <<curie>>)

\* ------------------------------------------------- the store (api)
\* The stores: an empty one, one with rows in every table, and the same one
\* with the content of best_content compressed.  The text_ref_ids lie on
\* both sides of the chunk boundaries; two rows of pmid_text_refs share a
\* pmid, and one has none.
ApiStores ==
    LET Content(text_ref_id, text_type, content) ==
            [text_ref_id |-> text_ref_id, text_type |-> text_type,
             content |-> content]
        contents ==
            <<Content(1, "title", <<"json", <<<<"a">>>>>>),
              Content(100002, "fulltext", <<"json", <<<<"a", "b">>, <<"b">>>>>>),
              Content(250000, "abstract", <<"json", <<<<"b">>, <<"a", "a">>>>>>)>>
        Ref(text_ref_id, pmid) == [text_ref_id |-> text_ref_id, pmid |-> pmid]
        Agent(id, agent_text, text_ref_id) ==
            [id |-> id, agent_text |-> agent_text,
             text_ref_id |-> text_ref_id]
        Entrez(id, taxon_id, entrez_id, uniprot_id, hgnc_id, pmid) ==
            [id |-> id, taxon_id |-> taxon_id, entrez_id |-> entrez_id,
             uniprot_id |-> uniprot_id, hgnc_id |-> hgnc_id, pmid |-> pmid]
        Xref(id, mesh_num, is_concept, curie) ==
            [id |-> id, mesh_num |-> mesh_num, is_concept |-> is_concept,
             curie |-> curie]
        Store(content, full) ==
            [best_content |-> content,
             pmid_text_refs |->
                 IF full THEN <<Ref(1, 1), Ref(2, 1), Ref(3, Null),
                                Ref(100002, 100002), Ref(250000, 100001)>>
                         ELSE <<>>,
             agent_texts |->
                 IF full THEN <<Agent(1, "ER", 1), Agent(2, "ER", 100002),
                                Agent(3, "AR", 1)>>
                         ELSE <<>>,
             entrez_pmids |->
                 IF full THEN <<Entrez(0, 9606, 3643, "P06213", 6091, 1),
                                Entrez(1, 9606, 3643, "P06213", 6091, 2),
                                Entrez(2, 10090, 16337, "P15208", 7, 1)>>
                         ELSE <<>>,
             mesh_pmids |->
                 IF full THEN CHOOSE t \in MeshPmidsTables : Len(t) > 0
                         ELSE <<>>,
             mesh_xrefs |->
                 IF full THEN <<Xref(0, 6332, 0, "HGNC:1"),
                                Xref(1, 588418, 1, "HGNC:1"),
                                Xref(2, 66332, 1, "FPLX:ERK")>>
                         ELSE <<>>]
    IN {Store(<<>>, FALSE), Store(contents, TRUE),
        Store([i \in DOMAIN contents |->
                  [contents[i] EXCEPT
                      !.content = zlib_compress(contents[i].content)]],
              TRUE)}

\* The id collections of the batch lookups: up to MaxRuns runs that start
\* at a chunk boundary or next to one, of no id, of one, of one chunk, of
\* one more than a chunk, or of two chunks and a half.
IdCollections ==
    LET Runs == {[lo |-> lo, len |-> len] :
                    lo \in {1, 2, batch_size + 1},
                    len \in {0, 1, batch_size, batch_size + 1,
                             2 * batch_size + batch_size \div 2}}
    IN UNION {[1..n -> Runs] : n \in 0..MaxRuns}

\* ------------------------------------------------ get_text_sample (api)
\* `left + right` with a tuple on the left: the concatenation when `right`
\* is a tuple too, TypeError (can only concatenate tuple (not "int") to
\* tuple) when it is not.
tuple_add(left, right) ==
    IF right.kind = "tuple"
      THEN Returned(Tuple(left.val \o right.val))
      ELSE Raised("TypeError")

\* get_text_sample(num_samples, text_types).  The query is run by the
\* generator row_iterator, whose body starts when TextContent.__init__ takes
\* its first row, after the with blocks have closed cursor and connection.
\* The first thing it evaluates is the parameter tuple
\* text_types + (num_samples); (num_samples) is the int itself, not a
\* one-element tuple, so the sum raises before any query is sent, and the
\* exception leaves TextContent.__init__ and get_text_sample.  (With a
\* parameter tuple, cur.execute on the closed cursor would raise
\* sqlite3.ProgrammingError.)
get_text_sample(table, num_samples, text_types) ==
    LET types == IF text_types = None
                   THEN Tuple(<<"fulltext", "abstract", "title">>)
                   ELSE Tuple(text_types.val)
        parameters == tuple_add(types, [kind |-> "int", val |-> num_samples])
    IN IF parameters.raised # NoError
         THEN Outcome(Raised(parameters.raised), <<>>)
         ELSE Outcome(Raised("ProgrammingError"), <<>>)

InitApi ==
    /\ DbIdle /\ TextIdle /\ FilterIdle /\ AsmIdle
    /\ store \in ApiStores
    /\ call = [name |-> "none", args |-> <<>>, before |-> NoApiCall]
    /\ outcome = Outcome(Returned(None), <<>>)

\* The lookups below read the store and leave it as it is, so a lookup made
\* after other lookups is the lookup made first: it is made once, on the
\* store as it is given.
FirstCall == call.name = "none"

GetTextRefIdsForPmids ==
    /\ FirstCall
    /\ UNCHANGED <<dbVars, textVars, filterVars, asmVars, store>>
    /\ \E pmids \in IdCollections :
          /\ call' = ApiCall("get_text_ref_ids_for_pmids", <<pmids>>,
                             NoApiCall)
          /\ outcome' = get_text_ref_ids_for_pmids(store.pmid_text_refs,
                                                   pmids)

GetPmidsForTextRefIds ==
    /\ FirstCall
    /\ UNCHANGED <<dbVars, textVars, filterVars, asmVars, store>>
    /\ \E text_ref_ids \in IdCollections :
          /\ call' = ApiCall("get_pmids_for_text_ref_ids", <<text_ref_ids>>,
                             NoApiCall)
          /\ outcome' = get_pmids_for_text_ref_ids(store.pmid_text_refs,
                                                   text_ref_ids)

GetParagraphsForTextRefIds ==
    /\ FirstCall
    /\ UNCHANGED <<dbVars, textVars, filterVars, asmVars, store>>
    /\ \E text_ref_ids \in IdCollections :
          /\ call' = ApiCall("get_paragraphs_for_text_ref_ids",
                             <<text_ref_ids>>, NoApiCall)
          /\ outcome' = get_paragraphs_for_text_ref_ids(store.best_content,
                                                        text_ref_ids)

\* The keys, by the column they are compared with: keys with several rows,
\* with one row and with none.
SingleKeyLookup ==
    /\ FirstCall
    /\ UNCHANGED <<dbVars, textVars, filterVars, asmVars, store>>
    /\ \E lookup \in SingleKeyLookups :
          \E key \in [agent_text |-> {"ER", "AR", "XX"},
                      hgnc_id |-> {6091, 7, 8},
                      uniprot_id |-> {"P06213", "P15208", "Q00000"},
                      entrez_id |-> {3643, 16337, 1}][lookup.where] :
              /\ call' = ApiCall(lookup.name, <<key>>, NoApiCall)
              /\ outcome' = single_key_lookup(store, lookup, key)

GetMeshTermsForGrounding ==
    /\ FirstCall
    /\ UNCHANGED <<dbVars, textVars, filterVars, asmVars, store>>
    /\ \E namespace \in {"HGNC", "FPLX"}, identifier \in {"1", "ERK"} :
          /\ call' = ApiCall("get_mesh_terms_for_grounding",
                             <<namespace, identifier>>, NoApiCall)
          /\ outcome' = get_mesh_terms_for_grounding(store.mesh_xrefs,
                                                     namespace, identifier)

\* get_text_sample with sample sizes below, at and above the number of
\* rows, and text_types None, empty, of one type and of two types.
GetTextSample ==
    /\ FirstCall
    /\ UNCHANGED <<dbVars, textVars, filterVars, asmVars, store>>
    /\ \E num_samples \in {0, 1, 3, 5},
          text_types \in {None, ListArg(<<>>), ListArg(<<"fulltext">>),
                          ListArg(<<"title", "abstract">>)} :
          /\ call' = ApiCall("get_text_sample",
                             <<num_samples, text_types>>, NoApiCall)
          /\ outcome' = get_text_sample(store.best_content, num_samples,
                                        text_types)

NextApi ==
    \/ GetTextSample
    \/ GetTextRefIdsForPmids
    \/ GetPmidsForTextRefIds
    \/ GetParagraphsForTextRefIds
    \/ SingleKeyLookup
    \/ GetMeshTermsForGrounding
    \/ GetPmidsForMeshTerm

\* ------------------------------------------- claims on the lookups
BatchLookups ==
    {"get_paragraphs_for_text_ref_ids", "get_text_ref_ids_for_pmids",
     "get_pmids_for_text_ref_ids"}

\* The ids at the input positions a .. b - 1 (counted from 0), as runs: what
\* the interval of positions has in common with the positions of each run.
Positions(ids, a, b) ==
    LET Offset(k) == Count(SubSeq(ids, 1, k - 1))
        From(k) == Max({a, Offset(k)})
        To(k) == Min({b, Offset(k) + ids[k].len})
        Part(k) == [lo |-> ids[k].lo + (From(k) - Offset(k)),
                    len |-> Max({To(k) - From(k), 0})]
        HasIds(run) == run.len > 0
    IN SelectSeq([k \in DOMAIN ids |-> Part(k)], HasIds)

\* The result of one query over all the ids: the rows of the table whose
\* looked-up column is one of the ids, read as the lookup reads them.
Unchunked(name, tables, ids) ==
    LET Selected(table, column) ==
            LET Among(row) == HasId(ids, row[column])
            IN SelectSeq(table, Among)
        LastOf(rows, column, x) ==
            rows[Max({i \in DOMAIN rows : rows[i][column] = x})]
        WithPmid(row) == row.pmid # Null
    IN CASE name = "get_text_ref_ids_for_pmids" ->
              LET rows == Selected(tables.pmid_text_refs, "pmid")
              IN Returned(Dict([x \in {rows[i].pmid : i \in DOMAIN rows} |->
                                   LastOf(rows, "pmid", x).text_ref_id]))
         [] name = "get_pmids_for_text_ref_ids" ->
              LET rows == SelectSeq(Selected(tables.pmid_text_refs,
                                             "text_ref_id"), WithPmid)
              IN Returned(Dict([x \in {rows[i].text_ref_id :
                                           i \in DOMAIN rows} |->
                                   LastOf(rows, "text_ref_id", x).pmid]))
         [] name = "get_paragraphs_for_text_ref_ids" ->
              LET rows == Selected(tables.best_content, "text_ref_id")
              IN IF \E i \in DOMAIN rows : IsBytes(rows[i].content)
                   THEN Raised("TypeError")
                   ELSE Returned([kind |-> "TextContent",
                                  val |-> TextContent_init(rows)])

\* The queries of the call partition the input positions into `count`
\* contiguous slices of at most batch_size ids.
SlicesPartition(ids, queries, count) ==
    LET Start(k) == Count([j \in 1..(k - 1) |->
                              [len |-> Count(queries[j].ids)]])
        Size(k) == Count(queries[k].ids)
    IN /\ Len(queries) = count
       /\ \A k \in DOMAIN queries :
              /\ Size(k) <= batch_size
              /\ queries[k].ids = Positions(ids, Start(k), Start(k) + Size(k))
       /\ Start(Len(queries) + 1) = Count(ids)

\* C12: a batch lookup over n ids issues exactly ceil(n / 100000) queries
\* (none for n = 0), each over a contiguous slice of at most 100000 ids, every
\* input position in exactly one slice, and its merged result is the result
\* of one unchunked query over the same ids.
C12_ChunkedLookupEqualsUnchunked ==
    call.name \in BatchLookups =>
        LET ids == call.args[1]
            one == Unchunked(call.name, store, ids)
        IN /\ SlicesPartition(ids, outcome.queries,
                              (Count(ids) + 99999) \div 100000)
           /\ outcome.raised = one.raised
           /\ outcome.raised = NoError => outcome.val = one.val

\* C13: for a best_content row whose content is stored compressed,
\* get_paragraphs_for_text_ref_ids returns, without raising, the paragraph
\* list it returns for the uncompressed row: read(compress(content)) =
\* read(content).
C13_CompressedContentReadsAsUncompressed ==
    call.name = "get_paragraphs_for_text_ref_ids" =>
        \A i \in DOMAIN store.best_content :
            LET row == store.best_content[i]
                Read(content) == Bucket(<<[row EXCEPT !.content = content]>>,
                                        row.text_type)[row.text_ref_id]
                buckets == [fulltext |-> "fulltexts", abstract |-> "abstracts",
                            title |-> "titles"]
            IN (IsBytes(row.content) /\ HasId(call.args[1], row.text_ref_id))
               => /\ outcome.raised = NoError
                  /\ row.text_ref_id \in
                         DOMAIN outcome.val.val[buckets[row.text_type]]
                  /\ outcome.val.val[buckets[row.text_type]][row.text_ref_id]
                         = Read(zlib_decompress(row.content))

\* The rows of the table whose column is x.
RowsWith(table, column, x) ==
    {i \in DOMAIN table : table[i][column] = x}

\* C18: no lookup raises because an id has no match in the store.  The
\* dict-returning batch lookups return a dict whose keys all have a row (an
\* id with none is no key), get_paragraphs_for_text_ref_ids returns an empty
\* TextContent when no id has a row, the list-returning lookups return [] for
\* a key (a well-formed MeSH id, a curie) with no row, and
\* get_taxon_id_for_uniprot returns None.
C18_AbsentIdIsNoError ==
    LET result == outcome.val.val
        list_lookups == {l \in SingleKeyLookups : ~l.first}
        first_lookups == {l \in SingleKeyLookups : l.first}
    IN /\ call.name = "get_text_ref_ids_for_pmids" =>
              /\ outcome.raised = NoError
              /\ \A x \in DOMAIN result :
                     RowsWith(store.pmid_text_refs, "pmid", x) # {}
       /\ call.name = "get_pmids_for_text_ref_ids" =>
              /\ outcome.raised = NoError
              /\ \A x \in DOMAIN result :
                     RowsWith(store.pmid_text_refs, "text_ref_id", x) # {}
       /\ (/\ call.name = "get_paragraphs_for_text_ref_ids"
           /\ \A i \in DOMAIN store.best_content :
                  ~HasId(call.args[1], store.best_content[i].text_ref_id))
          => /\ outcome.raised = NoError
             /\ TextContent_len(result) = 0
       /\ \A l \in SingleKeyLookups :
              (/\ call.name = l.name
               /\ RowsWith(store[l.table], l.where, call.args[1]) = {})
              => /\ outcome.raised = NoError
                 /\ outcome.val = IF l.first THEN None ELSE Tuple(<<>>)
       /\ (/\ call.name = "get_pmids_for_mesh_term"
           /\ mesh_id_to_mesh_num(call.args[1]).raised = NoError
           /\ LET pair == mesh_id_to_mesh_num(call.args[1]).val
              IN pair.kind = "tuple" =>
                     ~\E i \in DOMAIN store.mesh_pmids :
                         /\ store.mesh_pmids[i].mesh_num = pair.val[1]
                         /\ store.mesh_pmids[i].is_concept = pair.val[2]
                         /\ store.mesh_pmids[i].major_topic = call.args[2])
          => /\ outcome.raised = NoError
             /\ outcome.val = Tuple(<<>>)
       /\ (/\ call.name = "get_mesh_terms_for_grounding"
           /\ RowsWith(store.mesh_xrefs, "curie",
                       call.args[1] \o ":" \o call.args[2]) = {})
          => /\ outcome.raised = NoError
             /\ outcome.val = Tuple(<<>>)

\* The store has rows, and a lookup was made for a key that has none:
\* get_taxon_id_for_uniprot returned None.
C18_Witness ==
    /\ call.name = "get_taxon_id_for_uniprot"
    /\ Len(store.entrez_pmids) > 0
    /\ RowsWith(store.entrez_pmids, "uniprot_id", call.args[1]) = {}
    /\ outcome.raised = NoError
    /\ outcome.val = None

\* C20: get_mesh_terms_for_grounding(namespace, identifier) returns a list of
\* (mesh_num, is_concept) integer pairs, one per mesh_xrefs row whose curie
\* is namespace:identifier.
C20_GroundingReturnsNumericPairs ==
    call.name = "get_mesh_terms_for_grounding" =>
        LET Match(row) == row.curie = call.args[1] \o ":" \o call.args[2]
            rows == SelectSeq(store.mesh_xrefs, Match)
        IN /\ outcome.raised = NoError
           /\ Len(outcome.val.val) = Len(rows)
           /\ \A i \in DOMAIN rows :
                  /\ outcome.val.val[i].kind = "tuple"
                  /\ outcome.val.val[i].val
                         = <<rows[i].mesh_num, rows[i].is_concept>>

\* ---------------------------------------- construction.assemble
\* A store is the rows of each of its tables, in rowid order, and the names
\* of its indexes.  A row is copied as it is, so it is known by the table it
\* was built in and its number.
MaxAsmRows == 2

EmptyStore == [rows |-> EmptyDict, indexes |-> {}]

\* get_sqlite_tables(sqlite_db_path): the names of the tables of the store.
get_sqlite_tables(db) == DOMAIN db.rows

\* CREATE TABLE IF NOT EXISTS table_name: ensure_agent_texts_table,
\* ensure_best_content_table, ensure_entrez_pmids_table and
\* ensure_pmid_text_ref_table.
ensure_table(db, table_name) ==
    [db EXCEPT !.rows =
        [t \in DOMAIN db.rows \cup {table_name} |->
            IF t \in DOMAIN db.rows THEN db.rows[t] ELSE <<>>]]

\* move_table(from_db_path, to_db_path, table_name), with its assertions:
\* both stores must have the table; then INSERT INTO table_name SELECT * FROM
\* from_db.table_name, into a table that has no rows yet.
move_table_named(from_db, to_db, table_name) ==
    IF \/ table_name \notin get_sqlite_tables(from_db)
       \/ table_name \notin get_sqlite_tables(to_db)
      THEN [raised |-> "AssertionError", db |-> to_db]
      ELSE [raised |-> NoError,
            db |-> [to_db EXCEPT !.rows[table_name] =
                       @ \o from_db.rows[table_name]]]

\* The indexes add_indices_to_<table>_table creates.
Indices ==
    [agent_texts |-> {"agent_texts_agent_text_idx"},
     best_content |-> {"best_content_text_ref_id_idx",
                       "best_content_text_type_id_idx"},
     entrez_pmids |-> {"entrez_pmids_entrez_id_idx",
                       "entrez_pmids_uniprot_id_idx",
                       "entrez_pmids_hgnc_id_idx"},
     pmid_text_refs |-> {"pmid_text_refs_pmid_idx"},
     mesh_pmids |-> {"mesh_pmids_mesh_num_is_concept_idx"},
     mesh_xrefs |-> {"mesh_xrefs_curie_idx",
                     "mesh_xrefs_mesh_num_is_concept_idx"}]

\* add_indices_to_<table>_table(sqlite_db_path): CREATE INDEX IF NOT EXISTS
\* for each index of the table; without the table the statement fails.
add_indices(db, table_name) ==
    IF table_name \notin DOMAIN db.rows
      THEN [raised |-> "OperationalError", db |-> db]
      ELSE [raised |-> NoError,
            db |-> [db EXCEPT !.indexes = @ \cup Indices[table_name]]]

\* A faulty variant: each table is indexed as soon as it has been moved.
construct_local_database_indexing_each ==
    LET Step(op, source, table_name) ==
            [op |-> op, source |-> source, table_name |-> table_name]
    IN <<Step("ensure", "outpath", "agent_texts"),
         Step("ensure", "outpath", "best_content"),
         Step("ensure", "outpath", "entrez_pmids"),
         Step("ensure", "outpath", "pmid_text_refs"),
         Step("move_table", "agent_texts_db", "agent_texts"),
         Step("add_indices", "outpath", "agent_texts"),
         Step("move_table", "best_content_db", "best_content"),
         Step("add_indices", "outpath", "best_content"),
         Step("move_table", "entities_db", "entrez_pmids"),
         Step("add_indices", "outpath", "entrez_pmids"),
         Step("move_table", "pmid_text_refs_db", "pmid_text_refs"),
         Step("add_indices", "outpath", "pmid_text_refs"),
         Step("move_table", "mesh_db", "mesh_pmids"),
         Step("add_indices", "outpath", "mesh_pmids"),
         Step("move_table", "mesh_db", "mesh_xrefs"),
         Step("add_indices", "outpath", "mesh_xrefs")>>

\* construct_local_database(outpath, ...): its calls, in order.
construct_local_database ==
    LET Step(op, source, table_name) ==
            [op |-> op, source |-> source, table_name |-> table_name]
    IN <<Step("ensure", "outpath", "agent_texts"),
         Step("ensure", "outpath", "best_content"),
         Step("ensure", "outpath", "entrez_pmids"),
         Step("ensure", "outpath", "pmid_text_refs"),
         Step("move_table", "agent_texts_db", "agent_texts"),
         Step("move_table", "best_content_db", "best_content"),
         Step("move_table", "entities_db", "entrez_pmids"),
         Step("move_table", "pmid_text_refs_db", "pmid_text_refs"),
         Step("move_table", "mesh_db", "mesh_pmids"),
         Step("move_table", "mesh_db", "mesh_xrefs"),
         Step("add_indices", "outpath", "agent_texts"),
         Step("add_indices", "outpath", "best_content"),
         Step("add_indices", "outpath", "entrez_pmids"),
         Step("add_indices", "outpath", "pmid_text_refs"),
         Step("add_indices", "outpath", "mesh_pmids"),
         Step("add_indices", "outpath", "mesh_xrefs")>>

\* The source stores: each table has up to MaxAsmRows rows, and at most one
\* of the tables is missing from its store.
SourceStores ==
    LET tables == {construct_local_database[i].table_name :
                       i \in DOMAIN construct_local_database}
        SourceOf(t) ==
            construct_local_database[
                CHOOSE i \in DOMAIN construct_local_database :
                    /\ construct_local_database[i].op = "move_table"
                    /\ construct_local_database[i].table_name = t].source
        Rows(t, n) == [i \in 1..n |-> <<t, i>>]
        StoreOf(source, counts, missing) ==
            [rows |-> [t \in {x \in tables \ {missing} :
                                  SourceOf(x) = source} |->
                          Rows(t, counts[t])],
             indexes |-> {}]
    IN {[source \in {SourceOf(t) : t \in tables} |->
            StoreOf(source, counts, missing)] :
            counts \in [tables -> 0..MaxAsmRows],
            missing \in tables \cup {"none"}}

\* The destination is a fresh path, or a store in which the two MeSH tables
\* have been created.
InitAssemble ==
    /\ DbIdle /\ TextIdle /\ FilterIdle /\ ApiIdle
    /\ \E given \in SourceStores :
       \E outpath \in {EmptyStore,
                        ensure_table(ensure_table(EmptyStore, "mesh_pmids"),
                                     "mesh_xrefs")} :
           /\ sources = [path \in DOMAIN given \cup {"outpath"} |->
                             IF path = "outpath" THEN outpath
                                                 ELSE given[path]]
           /\ out = outpath
    /\ asm_pc = 1
    /\ asm_raised = NoError

\* The step construct_local_database is at, while it runs.
AsmStep(op) ==
    /\ asm_raised = NoError
    /\ asm_pc \in DOMAIN construct_local_database
    /\ construct_local_database[asm_pc].op = op

EnsureTable ==
    /\ AsmStep("ensure")
    /\ out' = ensure_table(out, construct_local_database[asm_pc].table_name)
    /\ asm_pc' = asm_pc + 1
    /\ UNCHANGED <<dbVars, textVars, filterVars, apiVars, sources, asm_raised>>

MoveTableNamed ==
    /\ AsmStep("move_table")
    /\ LET step == construct_local_database[asm_pc]
           moved == move_table_named(sources[step.source], out, step.table_name)
       IN /\ out' = moved.db
          /\ asm_raised' = moved.raised
          /\ asm_pc' = IF moved.raised = NoError THEN asm_pc + 1 ELSE asm_pc
    /\ UNCHANGED <<dbVars, textVars, filterVars, apiVars, sources>>

AddIndices ==
    /\ AsmStep("add_indices")
    /\ LET added == add_indices(out,
                                construct_local_database[asm_pc].table_name)
       IN /\ out' = added.db
          /\ asm_raised' = added.raised
          /\ asm_pc' = IF added.raised = NoError THEN asm_pc + 1 ELSE asm_pc
    /\ UNCHANGED <<dbVars, textVars, filterVars, apiVars, sources>>

NextAssemble == EnsureTable \/ MoveTableNamed \/ AddIndices

\* ------------------------------------------- claims on the assembly
\* construct_local_database has ended: it returned or it raised.
AsmEnded ==
    asm_raised # NoError \/ asm_pc = Len(construct_local_database) + 1

\* Every source store has the tables construct_local_database moves from it.
SourcesComplete ==
    \A i \in DOMAIN construct_local_database :
        construct_local_database[i].op = "move_table" =>
            construct_local_database[i].table_name
                \in get_sqlite_tables(
                        sources[construct_local_database[i].source])

\* C19: with source stores that each have their table and a fresh
\* destination, construct_local_database ends without an error, and the
\* destination then has the six tables, each with exactly the rows of its
\* source table, and the indexes.
C19_AssemblyCompletes ==
    (AsmEnded /\ SourcesComplete /\ sources.outpath = EmptyStore)
    => /\ asm_raised = NoError
       /\ \A i \in DOMAIN construct_local_database :
              LET step == construct_local_database[i]
              IN step.op = "move_table" =>
                     /\ step.table_name \in DOMAIN out.rows
                     /\ out.rows[step.table_name]
                            = sources[step.source].rows[step.table_name]
       /\ out.indexes = UNION {Indices[t] : t \in DOMAIN Indices}

\* The transfers of construct_local_database: its move_table calls.
Transfers ==
    {i \in DOMAIN construct_local_database :
        construct_local_database[i].op = "move_table"}

\* The transfer of step i has completed: the destination table holds the
\* rows of the source table.
Transferred(i) ==
    LET step == construct_local_database[i] IN
    /\ step.table_name \in DOMAIN out.rows
    /\ step.table_name \in DOMAIN sources[step.source].rows
    /\ out.rows[step.table_name] = sources[step.source].rows[step.table_name]

\* C28: while construct_local_database has a transfer ahead of it, or has
\* stopped at one that failed, the destination has no index; and a
\* destination with an index holds the rows of all six source tables.
C28_IndexesOnlyAfterAllTransfers ==
    /\ (\E i \in Transfers : asm_pc <= i) => out.indexes = {}
    /\ out.indexes # {} =>
          /\ Cardinality(Transfers) = 6
          /\ \A i \in Transfers : Transferred(i)

\* A run has created an index on a destination that holds moved rows, after
\* its last transfer.
C28_Witness ==
    /\ out.indexes # {}
    /\ \A i \in Transfers : asm_pc > i
    /\ \E i \in Transfers :
          out.rows[construct_local_database[i].table_name] # <<>>

\* ------------------------------------- claims on the MEDLINE headings
\* C26: extract_info_from_medline_xml raises nothing, whatever first
\* character the UI of a heading has, and returns the rows of the headings
\* whose UI starts with 'C' or 'D', in order, and no row for another heading.
C26_UnsupportedHeadingIsSkipped ==
    call.name = "extract_info_from_medline_xml" =>
        LET visited == VisitedHeadings(call.args[1])
            kept == SelectSeq(visited,
                        LAMBDA h : Supported(h.descriptor.UI[1]))
        IN /\ outcome.raised = NoError
           /\ outcome.val.kind = "list"
           /\ Len(outcome.val.val) = Len(kept)
           /\ \A i \in DOMAIN kept :
                 LET row == outcome.val.val[i]
                     ui == kept[i].descriptor.UI
                 IN /\ row.pmid = kept[i].pmid
                    /\ row.is_concept = (IF ui[1] = "C" THEN 1 ELSE 0)
                    /\ mesh_num_to_mesh_id(row.mesh_num, row.is_concept).val
                          = ui

\* ------------------------------------------ claims on get_text_sample
\* C21: get_text_sample raises nothing and returns an unprocessed
\* TextContent; its documents are best_content rows of the requested text
\* types (of any type when text_types is None), and there are as many of
\* them as num_samples, or as such rows if these are fewer.
C21_SampleOfRequestedTypes ==
    call.name = "get_text_sample" =>
        LET num_samples == call.args[1]
            text_types == IF call.args[2] = None THEN TextTypes
                          ELSE Range(call.args[2].val)
            eligible == {i \in DOMAIN store.best_content :
                            store.best_content[i].text_type \in text_types}
            content == outcome.val.val
            sampled ==
                {<<d, "fulltext">> : d \in DOMAIN content.fulltexts}
                \cup {<<d, "abstract">> : d \in DOMAIN content.abstracts}
                \cup {<<d, "title">> : d \in DOMAIN content.titles}
        IN /\ outcome.raised = NoError
           /\ outcome.val.kind = "TextContent"
           /\ content.processed = FALSE
           /\ Cardinality(sampled)
                 = Min({num_samples, Cardinality(eligible)})
           /\ \A p \in sampled :
                 /\ p[2] \in text_types
                 /\ \E i \in eligible :
                       /\ store.best_content[i].text_ref_id = p[1]
                       /\ store.best_content[i].text_type = p[2]

\* ------------------------------------------------ claims on the codec
\* The identifiers the padding rule describes: 'C' or 'D', then the number
\* in 6 digits when it is below the threshold of the prefix (66332 for 'D',
\* 588418 for 'C') and in 9 digits otherwise.
FollowsPaddingRule(mesh_id) ==
    /\ Len(mesh_id) >= 2
    /\ mesh_id[1] \in {"C", "D"}
    /\ \A i \in 2..Len(mesh_id) : IsDigit(mesh_id[i])
    /\ LET n == DecimalValue(Tail(mesh_id))
           below == IF mesh_id[1] = "D" THEN n < 66332 ELSE n < 588418
       IN Len(mesh_id) - 1 = IF below THEN 6 ELSE 9

\* The last call was mesh_id_to_mesh_num, or mesh_num_to_mesh_id.
Encoded == call.name = "mesh_id_to_mesh_num"
Decoded == call.name = "mesh_num_to_mesh_id"

\* C14: for every identifier x that follows the padding rule,
\* mesh_id_to_mesh_num(x) returns a pair and
\* mesh_num_to_mesh_id(*mesh_id_to_mesh_num(x)) equals x.
C14_DecodeOfEncodeIsIdentity ==
    /\ Encoded /\ FollowsPaddingRule(call.args[1]) =>
          outcome.raised = NoError /\ outcome.val.kind = "tuple"
    /\ /\ Decoded
       /\ call.before.name = "mesh_id_to_mesh_num"
       /\ FollowsPaddingRule(call.before.args[1])
       => outcome.raised = NoError /\ outcome.val = call.before.args[1]

\* A descriptor id of 9 digits has been encoded and decoded again.
C14_Witness ==
    /\ Decoded
    /\ call.before.name = "mesh_id_to_mesh_num"
    /\ FollowsPaddingRule(call.before.args[1])
    /\ call.before.args[1][1] = "D"
    /\ Len(call.before.args[1]) = 10
    /\ outcome.val = call.before.args[1]

\* Two calls of mesh_id_to_mesh_num in a row, on different identifiers that
\* both satisfy Covered, did not return the same result.
EncodesApart(Covered(_)) ==
    /\ Encoded
    /\ Covered(call.args[1])
    /\ call.before.name = "mesh_id_to_mesh_num"
    /\ Covered(call.before.args[1])
    /\ call.before.args[1] # call.args[1]
    => call.before.outcome.val # outcome.val

\* C15 as stated: mesh_id_to_mesh_num returns a pair for every identifier
\* that begins with 'C' or 'D', and two distinct such identifiers never
\* encode to the same pair.
C15_TotalBijectionOnCAndD ==
    LET BeginsWithCOrD(x) == Len(x) >= 1 /\ x[1] \in {"C", "D"} IN
    /\ Encoded /\ BeginsWithCOrD(call.args[1]) =>
          outcome.raised = NoError /\ outcome.val.kind = "tuple"
    /\ EncodesApart(BeginsWithCOrD)

\* C15 amended: mesh_id_to_mesh_num returns a pair for every identifier that
\* follows the padding rule, and two distinct identifiers that follow it
\* never encode to the same pair.
C15_TotalBijectionOnPaddedIds ==
    /\ Encoded /\ FollowsPaddingRule(call.args[1]) =>
          outcome.raised = NoError /\ outcome.val.kind = "tuple"
    /\ EncodesApart(FollowsPaddingRule)

\* Two identifiers of the same number, a descriptor and a concept, have been
\* encoded one after the other.
C15_Witness ==
    /\ Encoded
    /\ call.before.name = "mesh_id_to_mesh_num"
    /\ FollowsPaddingRule(call.args[1])
    /\ FollowsPaddingRule(call.before.args[1])
    /\ call.args[1][1] # call.before.args[1][1]
    /\ Tail(call.args[1]) = Tail(call.before.args[1])
    /\ outcome.val.val[1] = call.before.outcome.val.val[1]

\* C16: for an identifier whose first character is neither 'C' nor 'D',
\* mesh_id_to_mesh_num returns None without raising, and
\* get_pmids_for_mesh_term returns the empty list without sending a query.
C16_UnsupportedPrefixIsAbsent ==
    LET unsupported == /\ Len(call.args[1]) >= 1
                       /\ call.args[1][1] \notin {"C", "D"}
    IN /\ Encoded /\ unsupported =>
             outcome.raised = NoError /\ outcome.val.kind = "None"
       /\ call.name = "get_pmids_for_mesh_term" /\ unsupported =>
             /\ outcome.raised = NoError
             /\ outcome.val.kind = "tuple" /\ outcome.val.val = <<>>
             /\ outcome.queries = <<>>

\* get_pmids_for_mesh_term has been called with an identifier of another
\* first character whose number the store has major-topic rows for.
C16_Witness ==
    /\ call.name = "get_pmids_for_mesh_term"
    /\ call.args[1] = <<"X", "0", "0", "0", "0", "0", "1">>
    /\ \E i \in DOMAIN store.mesh_pmids :
          /\ store.mesh_pmids[i].mesh_num = 1
          /\ store.mesh_pmids[i].major_topic = call.args[2]
    /\ outcome.val.val = <<>>

\* The number of decimal digits of a natural number below 10^10.
NumDigits(n) ==
    CHOOSE k \in 1..10 :
        /\ k = 10 \/ n < 10^k
        /\ k > 1 => n >= 10^(k - 1)

\* C17: mesh_num_to_mesh_id(n, is_concept) is 'D' (is_concept = 0) or 'C'
\* (is_concept = 1) followed by n zero-padded to 6 digits when n is below
\* the threshold of the prefix (66332 for 'D', 588418 for 'C') and to 9
\* digits otherwise; (66331, 0) gives 'D066331', (66332, 0) 'D000066332'.
\* A mesh_num is a natural number.
C17_PaddingByThreshold ==
    Decoded /\ call.args[1] >= 0 /\ call.args[2] \in {0, 1} =>
        LET n == call.args[1]
            prefix == IF call.args[2] = 1 THEN "C" ELSE "D"
            below == IF prefix = "D" THEN n < 66332 ELSE n < 588418
            width == IF below THEN 6 ELSE 9
            id == outcome.val
        IN /\ outcome.raised = NoError
           /\ id[1] = prefix
           /\ Len(id) - 1 = IF NumDigits(n) > width THEN NumDigits(n)
                                                    ELSE width
           /\ \A i \in 2..Len(id) : IsDigit(id[i])
           /\ DecimalValue(Tail(id)) = n
           /\ call.args = <<66331, 0>> =>
                 id = <<"D", "0", "6", "6", "3", "3", "1">>
           /\ call.args = <<66332, 0>> =>
                 id = <<"D", "0", "0", "0", "0", "6", "6", "3", "3", "2">>

\* mesh_num_to_mesh_id has been called at the threshold of the descriptors.
C17_Witness ==
    /\ Decoded
    /\ call.args = <<66332, 0>>
    /\ Len(outcome.val) = 10

\* ------------------------------------------------ csv.query_to_csv
\* A Python str is the sequence of its characters (as above).  A query has
\* at most MaxTokens words.
MaxTokens == 2

UpperCase ==
    <<"A", "B", "C", "D", "E", "F", "G", "H", "I", "J", "K", "L", "M", "N",
      "O", "P", "Q", "R", "S", "T", "U", "V", "W", "X", "Y", "Z">>
LowerCase ==
    <<"a", "b", "c", "d", "e", "f", "g", "h", "i", "j", "k", "l", "m", "n",
      "o", "p", "q", "r", "s", "t", "u", "v", "w", "x", "y", "z">>

\* A string is the sequence of its characters.  A character that a string
\* of this module can hold is written as itself; every other character is
\* written as Python writes it: "\\x0b" is the vertical tab, "\\u212a" the
\* Kelvin sign.  Beyond ASCII the strings here hold the whitespace
\* characters and the Kelvin sign only.

\* string.lower(): the letters A to Z become a to z; the Kelvin sign is the
\* one character beyond ASCII whose lower case is an ASCII letter, k.
lower(string) ==
    [i \in DOMAIN string |->
        IF \E k \in DOMAIN UpperCase : UpperCase[k] = string[i]
          THEN LowerCase[CHOOSE k \in DOMAIN UpperCase :
                             UpperCase[k] = string[i]]
          ELSE IF string[i] = "\\u212a" THEN "k"
          ELSE string[i]]

\* string.split(): the maximal runs of characters that are not whitespace,
\* in order; runs of whitespace separate them and give no empty string.
\* Whitespace is every character of which str.isspace is true: the tab, the
\* newline, the vertical tab, the form feed, the carriage return, the four
\* separators 0x1c to 0x1f, the blank, and the spaces beyond ASCII.
RECURSIVE split(_)
split(string) ==
    LET IsSpace(ch) ==
            ch \in {"\t", "\n", "\\x0b", "\f", "\r",
                    "\\x1c", "\\x1d", "\\x1e", "\\x1f", " ",
                    "\\x85", "\\xa0", "\\u1680",
                    "\\u2000", "\\u2001", "\\u2002", "\\u2003", "\\u2004",
                    "\\u2005", "\\u2006", "\\u2007", "\\u2008", "\\u2009",
                    "\\u200a", "\\u2028", "\\u2029", "\\u202f", "\\u205f",
                    "\\u3000"}
        spaces == {i \in DOMAIN string : IsSpace(string[i])}
    IN IF string = <<>> THEN <<>>
       ELSE IF IsSpace(string[1]) THEN split(Tail(string))
       ELSE IF spaces = {} THEN <<string>>
       ELSE <<SubSeq(string, 1, Min(spaces) - 1)>>
            \o split(SubSeq(string, Min(spaces) + 1, Len(string)))

\* _find_disallowed_keywords(query) (find_disallowed_keywords in
\* csv_dump.py): the disallowed keywords among the lowered tokens.
find_disallowed_keywords(query) ==
    {lower(token) : token \in Range(split(query))} \cap
    {<<"a", "l", "t", "e", "r">>,
     <<"c", "a", "l", "l">>,
     <<"c", "o", "m", "m", "i", "t">>,
     <<"c", "r", "e", "a", "t", "e">>,
     <<"d", "e", "l", "e", "t", "e">>,
     <<"d", "r", "o", "p">>,
     <<"e", "x", "p", "l", "a", "i", "n">>,
     <<"g", "r", "a", "n", "t">>,
     <<"i", "n", "s", "e", "r", "t">>,
     <<"l", "o", "c", "k">>,
     <<"m", "e", "r", "g", "e">>,
     <<"r", "e", "n", "a", "m", "e">>,
     <<"r", "e", "v", "o", "k", "e">>,
     <<"s", "a", "v", "e", "p", "o", "i", "n", "t">>,
     <<"s", "e", "t">>,
     <<"r", "o", "l", "l", "b", "a", "c", "k">>,
     <<"t", "r", "a", "n", "s", "a", "c", "t", "i", "o", "n">>,
     <<"t", "r", "u", "n", "c", "a", "t", "e">>,
     <<"u", "p", "d", "a", "t", "e">>}

\* query_to_csv(query, output_location, db), with get_databases() = defaults.
\* The assertion on the disallowed keywords is made inside try and its
\* AssertionError is caught and logged; so is the KeyError of a db that
\* defaults does not have, after which db_uri is unbound and building the
\* command raises UnboundLocalError.  Otherwise the command is handed to
\* subprocess.run and the call returns None.
query_to_csv(defaults, query, output_location, db) ==
    LET disallowed_keywords == find_disallowed_keywords(query)
        logged == (IF disallowed_keywords # {}
                     THEN <<"AssertionError">> ELSE <<>>)
                  \o (IF db \notin DOMAIN defaults
                        THEN <<"KeyError">> ELSE <<>>)
        command == <<"psql", defaults[db], "-c",
                     [copy |-> query, to |-> output_location]>>
    IN IF db \notin DOMAIN defaults
         THEN [raised |-> "UnboundLocalError", val |-> None,
               queries |-> <<>>, logged |-> logged]
         ELSE [raised |-> NoError, val |-> None,
               queries |-> <<command>>, logged |-> logged]

\* The queries: up to MaxTokens words, each after a blank, a newline, a
\* form feed or a vertical tab.  The words are a read, disallowed keywords
\* in three cases and with the Kelvin sign for its k, and words that hold a
\* keyword without being one.
Queries ==
    LET words == {<<"s", "e", "l", "e", "c", "t">>,
                  <<"d", "r", "o", "p">>, <<"D", "R", "O", "P">>,
                  <<"D", "r", "o", "p">>, <<"u", "p", "d", "a", "t", "e">>,
                  <<"l", "o", "c", "\\u212a">>,
                  <<"d", "r", "o", "p", "s">>, <<"d", "r", "o", "p", ";">>}
        pieces == {<<sep>> \o w : sep \in {" ", "\n", "\f", "\\x0b"},
                                  w \in words}
        RECURSIVE Concat(_)
        Concat(seq) == IF seq = <<>> THEN <<>>
                       ELSE Head(seq) \o Concat(Tail(seq))
    IN {Concat(q) : q \in UNION {[1..n -> pieces] : n \in 0..MaxTokens}}

InitCsv ==
    /\ DbIdle /\ TextIdle /\ FilterIdle /\ AsmIdle
    /\ store = [primary |-> "postgresql://primary"]
    /\ call = [name |-> "none", args |-> <<>>, before |-> NoApiCall]
    /\ outcome = [raised |-> NoError, val |-> None, queries |-> <<>>,
                  logged |-> <<>>]

\* The call is made once: it reads no state of the program.
QueryToCsv ==
    /\ call.name = "none"
    /\ UNCHANGED <<dbVars, textVars, filterVars, asmVars, store>>
    /\ \E query \in Queries, db \in {"primary", "absent"} :
          /\ call' = ApiCall("query_to_csv", <<query, "out.csv", db>>,
                             NoApiCall)
          /\ outcome' = query_to_csv(store, query, "out.csv", db)

NextCsv == QueryToCsv

\* C27: a query with a disallowed keyword among its whitespace-delimited
\* tokens, in any letter case, makes query_to_csv raise AssertionError, and
\* no command is handed to subprocess.run for it.
C27_DisallowedQueryIsNotRun ==
    (/\ call.name = "query_to_csv"
     /\ find_disallowed_keywords(call.args[1]) # {}) =>
        /\ outcome.raised = "AssertionError"
        /\ outcome.queries = <<>>

\* ------------------------------- construction.tables.agent_texts
\* Rows of agent_stmts.csv (ids 1..MaxAgentStmts).
MaxAgentStmts == 2

\* The tables create_agent_texts_table joins, in the order in which
\* create_temp_agent_text_tables creates and imports them.
TempTables ==
    <<"agent_stmts", "stmt_readings", "reading_content",
      "content_text_refs">>

needed_tables == Range(TempTables)

\* What the four dumps read from the primary database: the rows of
\* agent_stmts.csv (id, agent_text, stmt_id), stmt_readings.csv (stmt_id,
\* reading_id), reading_content.csv (reading_id, text_content_id) and
\* content_text_refs.csv (text_content.id, text_content.text_ref_id).  The
\* first column of each is a primary key.
PrimaryRows ==
    LET Keyed(key, value) ==
            UNION {{[i \in 1..k |-> (key :> i) @@ (value :> f[i])] :
                        f \in [1..k -> 1..2]} : k \in 0..2}
        AgentStmts ==
            UNION {{[i \in 1..k |-> [id |-> i, agent_text |-> f[i][1],
                                     stmt_id |-> f[i][2]]] :
                        f \in [1..k -> {"ER", "AR"} \X (1..2)]} :
                   k \in 0..MaxAgentStmts}
    IN  [agent_stmts : AgentStmts,
         stmt_readings : Keyed("stmt_id", "reading_id"),
         reading_content : Keyed("reading_id", "text_content_id"),
         content_text_refs : Keyed("text_content_id", "text_ref_id")]

\* The first n entries of a sequence of names, as a set.
FirstOf(names, n) == {names[i] : i \in 1..n}

\* agent_text_stmts_to_csv, stmts_readings_to_csv, readings_content_to_csv
\* and content_text_refs_to_csv: the csv file of `table` is written from the
\* primary database.
dump_to_csv(primary, csv, table) ==
    [t \in DOMAIN csv \cup {table} |->
        IF t = table THEN primary[t] ELSE csv[t]]

\* create_temp_agent_text_tables(*csv_files, sqlite_db_path) on a new
\* store: the four tables are created and each csv file is imported into
\* its table.
create_temp_agent_text_tables(csv) ==
    [rows |-> [t \in needed_tables |-> csv[t]], indexes |-> {}]

\* The indexes add_indices_to_temp_agent_text_tables creates, in its order.
TempIndices ==
    <<"agent_stmts_stmt_id_idx", "stmt_readings_reading_id_idx",
      "reading_content_text_content_id_idx">>

\* add_indices_to_temp_agent_text_tables(sqlite_db_path): three CREATE INDEX
\* IF NOT EXISTS, the first on agent_stmts, the second and the third on
\* stmt_readings, each committed by itself; the first on a table that does
\* not exist raises, and the indexes created before it stay.
add_indices_to_temp_agent_text_tables(db) ==
    LET on == <<"agent_stmts", "stmt_readings", "stmt_readings">>
        missing == {i \in DOMAIN on : on[i] \notin get_sqlite_tables(db)}
        created == IF missing = {} THEN Len(on) ELSE Min(missing) - 1
    IN  [raised |-> IF missing = {} THEN NoError ELSE "OperationalError",
         db |-> [db EXCEPT !.indexes = @ \cup FirstOf(TempIndices, created)]]

\* The rows of SELECT NULL, ags.agent_text, ct.text_content_id FROM
\* agent_stmts ags JOIN stmt_readings sr JOIN reading_content rc JOIN
\* content_text_refs ct: one row per row of agent_stmts whose chain of keys
\* is complete, in the order of agent_stmts.
AgentTextsJoin(rows) ==
    LET Key(table, key, id) ==
            {i \in DOMAIN rows[table] : rows[table][i][key] = id}
        Sr(ags) == Key("stmt_readings", "stmt_id", ags.stmt_id)
        Rc(sr) == Key("reading_content", "reading_id", sr.reading_id)
        Ct(rc) == Key("content_text_refs", "text_content_id",
                      rc.text_content_id)
        sr_of(ags) == rows.stmt_readings[CHOOSE i \in Sr(ags) : TRUE]
        rc_of(ags) ==
            rows.reading_content[CHOOSE i \in Rc(sr_of(ags)) : TRUE]
        ct_of(ags) ==
            rows.content_text_refs[CHOOSE i \in Ct(rc_of(ags)) : TRUE]
        Joined(ags) ==
            /\ Sr(ags) # {}
            /\ Rc(sr_of(ags)) # {}
            /\ Ct(rc_of(ags)) # {}
        joined == SelectSeq(rows.agent_stmts, Joined)
    IN  [i \in DOMAIN joined |->
            [agent_text |-> joined[i].agent_text,
             text_ref_id |-> ct_of(joined[i]).text_content_id]]

\* ensure_agent_texts_table(sqlite_db_path): CREATE TABLE IF NOT EXISTS
\* agent_texts, committed on a connection of its own.
ensure_agent_texts_table(db) == ensure_table(db, "agent_texts")

\* The second connection of create_agent_texts_table: INSERT OR IGNORE INTO
\* agent_texts the rows of the join, committed; the statement raises when
\* one of the tables it joins does not exist.
insert_into_agent_texts(db) ==
    LET old == db.rows.agent_texts
        new == AgentTextsJoin(db.rows)
        inserted ==
            old \o [i \in DOMAIN new |->
                        [id |-> Len(old) + i,
                         agent_text |-> new[i].agent_text,
                         text_ref_id |-> new[i].text_ref_id]]
    IN  IF needed_tables \subseteq get_sqlite_tables(db)
        THEN [raised |-> NoError,
              db |-> [db EXCEPT !.rows.agent_texts = inserted]]
        ELSE [raised |-> "OperationalError", db |-> db]

\* create_agent_texts_table(sqlite_db_path): the assertion on the needed
\* tables is caught and logged; ensure_agent_texts_table creates the table
\* and commits; then the rows of the join are inserted.
create_agent_texts_table(db) ==
    LET all_tables == get_sqlite_tables(db)
        logged == IF needed_tables \subseteq all_tables
                  THEN <<>> ELSE <<"AssertionError">>
        inserted == insert_into_agent_texts(ensure_agent_texts_table(db))
    IN  [raised |-> inserted.raised, val |-> None, queries |-> <<>>,
         logged |-> logged, db |-> inserted.db]

\* The files under outpath that a run has left which was stopped between
\* two statements of lines 228-234, at `point`: the number of tables
\* created (each CREATE TABLE is committed by itself), of csv files
\* imported, of indexes created and of csv files removed.
StoppedAt(primary, point) ==
    [primary |-> primary,
     csv |-> [t \in needed_tables \ FirstOf(TempTables, point[4])
                |-> primary[t]],
     exists |-> TRUE,
     rows |-> [t \in FirstOf(TempTables, point[1]) |->
                  IF t \in FirstOf(TempTables, point[2])
                    THEN primary[t] ELSE <<>>],
     indexes |-> FirstOf(TempIndices, point[3])]

\* The primary database and the files under outpath when the script
\* starts: before the first run there is no file, or an earlier run was
\* stopped while it made the tables, loaded them, indexed them or removed
\* the csv files.
InitAgentTexts ==
    /\ DbIdle /\ TextIdle /\ FilterIdle /\ AsmIdle
    /\ \E primary \in PrimaryRows :
          \/ store = [primary |-> primary, csv |-> EmptyDict,
                      exists |-> FALSE, rows |-> EmptyDict, indexes |-> {}]
          \/ \E created \in 0..4 :
                store = StoppedAt(primary, <<created, 0, 0, 0>>)
          \/ \E imported \in 1..4 :
                store = StoppedAt(primary, <<4, imported, 0, 0>>)
          \/ \E indexed \in 1..3 :
                store = StoppedAt(primary, <<4, 4, indexed, 0>>)
          \/ \E removed \in 1..3 :
                store = StoppedAt(primary, <<4, 4, 3, removed>>)
    /\ call = [name |-> "none", args |-> <<>>, before |-> NoApiCall]
    /\ outcome = [raised |-> NoError, val |-> None, queries |-> <<>>,
                  logged |-> <<>>]

\* __main__, lines 214-226, one turn of the loop that dumps: the csv files
\* that exist are passed over and the first that does not is dumped.
DumpToCsv ==
    /\ call.name \in {"none", "to_csv"}
    /\ \E i \in DOMAIN TempTables :
          /\ TempTables[i] \notin DOMAIN store.csv
          /\ FirstOf(TempTables, i - 1) \subseteq DOMAIN store.csv
          /\ store' = [store EXCEPT !.csv =
                          dump_to_csv(store.primary, store.csv,
                                      TempTables[i])]
    /\ call' = [call EXCEPT !.name = "to_csv"]
    /\ UNCHANGED <<dbVars, textVars, filterVars, asmVars, outcome>>

\* __main__, after the loop that dumps: if not
\* os.path.exists(agent_texts_db_path), the temporary tables are created
\* and loaded,
CreateTempAgentTextTables ==
    /\ call.name \in {"none", "to_csv"}
    /\ needed_tables \subseteq DOMAIN store.csv
    /\ ~store.exists
    /\ LET db == create_temp_agent_text_tables(store.csv)
       IN store' = [store EXCEPT !.exists = TRUE, !.rows = db.rows,
                                 !.indexes = db.indexes]
    /\ call' = [call EXCEPT !.name = "create_temp_agent_text_tables"]
    /\ UNCHANGED <<dbVars, textVars, filterVars, asmVars, outcome>>

\* then indexed,
AddIndicesToTempAgentTextTables ==
    /\ call.name = "create_temp_agent_text_tables"
    /\ store' = [store EXCEPT !.indexes =
                    add_indices_to_temp_agent_text_tables(store).db.indexes]
    /\ call' = [call EXCEPT !.name = "add_indices_to_temp_agent_text_tables"]
    /\ UNCHANGED <<dbVars, textVars, filterVars, asmVars, outcome>>

\* and the csv files are removed.
RemoveCsvFiles ==
    /\ call.name = "add_indices_to_temp_agent_text_tables"
    /\ store' = [store EXCEPT !.csv = EmptyDict]
    /\ call' = [call EXCEPT !.name = "os.remove"]
    /\ UNCHANGED <<dbVars, textVars, filterVars, asmVars, outcome>>

\* The script has reached: if 'agent_texts' not in get_sqlite_tables(...).
AtAgentTextsCheck ==
    \/ /\ call.name \in {"none", "to_csv"}
       /\ needed_tables \subseteq DOMAIN store.csv
       /\ store.exists
    \/ call.name = "os.remove"

\* __main__: if 'agent_texts' not in get_sqlite_tables(agent_texts_db_path),
\* create_agent_texts_table is called.  Its first part: the assertion on
\* the needed tables, logged when it fails, and ensure_agent_texts_table,
\* which commits.
EnsureAgentTextsTable ==
    /\ AtAgentTextsCheck
    /\ "agent_texts" \notin get_sqlite_tables(store)
    /\ store' = [store EXCEPT !.rows = ensure_agent_texts_table(store).rows]
    /\ outcome' = [outcome EXCEPT !.logged =
                      create_agent_texts_table(store).logged]
    /\ call' = [call EXCEPT !.name = "ensure_agent_texts_table"]
    /\ UNCHANGED <<dbVars, textVars, filterVars, asmVars>>

\* Its second part: the INSERT and its commit; an exception ends the
\* script.
CreateAgentTextsTable ==
    /\ call.name = "ensure_agent_texts_table"
    /\ LET res == insert_into_agent_texts(store)
       IN /\ store' = [store EXCEPT !.rows = res.db.rows]
          /\ outcome' = [outcome EXCEPT !.raised = res.raised]
    /\ call' = [call EXCEPT !.name = "create_agent_texts_table"]
    /\ UNCHANGED <<dbVars, textVars, filterVars, asmVars>>

\* __main__: the table agent_texts exists, and the script ends.
AgentTextsExists ==
    /\ AtAgentTextsCheck
    /\ "agent_texts" \in get_sqlite_tables(store)
    /\ call' = [call EXCEPT !.name = "__main__"]
    /\ UNCHANGED <<dbVars, textVars, filterVars, asmVars, store, outcome>>

\* The script has ended, by an exception or not, or it was stopped after
\* one of its steps.
AgentTextsEnded == call.name # "none"

\* The script is run again on what the run before has left; call.before
\* keeps how that run ended.
RunAgentTextsAgain ==
    /\ AgentTextsEnded
    /\ call' = [name |-> "none", args |-> <<>>,
                before |-> [name |-> call.name, args |-> <<>>,
                            outcome |-> outcome]]
    /\ outcome' = [raised |-> NoError, val |-> None, queries |-> <<>>,
                   logged |-> <<>>]
    /\ UNCHANGED <<dbVars, textVars, filterVars, asmVars, store>>

NextAgentTexts ==
    \/ DumpToCsv
    \/ CreateTempAgentTextTables
    \/ AddIndicesToTempAgentTextTables
    \/ RemoveCsvFiles
    \/ EnsureAgentTextsTable
    \/ CreateAgentTextsTable
    \/ AgentTextsExists
    \/ RunAgentTextsAgain

\* ----------------------------------- claims on the agent_texts build
\* create_agent_texts_table has returned: the join was inserted.
AgentTextsBuilt ==
    /\ call.name = "create_agent_texts_table"
    /\ outcome.raised = NoError

\* The text_ref_ids t for which a chain agent_stmts(agent_text, stmt_id) ->
\* stmt_readings(stmt_id, reading_id) -> reading_content(reading_id,
\* text_content_id) -> content_text_refs(text_content_id, t) exists.
ChainTextRefIds(rows, agent_text) ==
    {ct.text_ref_id :
        ct \in {c \in Range(rows.content_text_refs) :
                   \E ags \in Range(rows.agent_stmts),
                      sr \in Range(rows.stmt_readings),
                      rc \in Range(rows.reading_content) :
                       /\ ags.agent_text = agent_text
                       /\ ags.stmt_id = sr.stmt_id
                       /\ sr.reading_id = rc.reading_id
                       /\ rc.text_content_id = c.text_content_id}}

\* C22: after the agent_texts build, get_text_ref_ids_for_agent_text(a)
\* returns exactly the text_ref_ids of the documents that a chain of the
\* four staging tables links to the agent text a.
C22_AgentTextLookupFollowsTheChain ==
    AgentTextsBuilt =>
        LET lookup == CHOOSE l \in SingleKeyLookups :
                          l.name = "get_text_ref_ids_for_agent_text"
        IN  \A a \in {"ER", "AR"} :
                LET found == single_key_lookup(store.rows, lookup, a)
                IN  /\ found.raised = NoError
                    /\ Range(found.val.val) = ChainTextRefIds(store.rows, a)

\* C29: when one of the required staging tables is missing,
\* create_agent_texts_table logs the failed precondition and returns
\* without raising.
C29_MissingStagingTableIsLoggedNotRaised ==
    (/\ call.name = "create_agent_texts_table"
     /\ ~(needed_tables \subseteq get_sqlite_tables(store)))
        => /\ outcome.logged = <<"AssertionError">>
           /\ outcome.raised = NoError

\* C30: in every state of the agent_texts store, if the table agent_texts
\* exists then the join that fills it has completed: the staging tables
\* exist and agent_texts holds the rows of their join; so a run after a
\* failed run does not end with an empty table it has skipped.
C30_AgentTextsExistsOnlyWhenJoined ==
    "agent_texts" \in get_sqlite_tables(store) =>
        /\ needed_tables \subseteq get_sqlite_tables(store)
        /\ LET staging == [store EXCEPT !.rows =
                              [t \in needed_tables |-> store.rows[t]]]
           IN  store.rows.agent_texts =
                   create_agent_texts_table(staging).db.rows.agent_texts

\* --------------------------------------- claims on the build, continued
\* The documents whose candidates are titles only, and several of them.
SeveralTitlesOnly(d) ==
    /\ Cardinality(RowsOf(candidates, d, "title")) >= 2
    /\ ~ DocHas(d, "abstract")
    /\ ~ DocHas(d, "fulltext")

\* C23: for a document with only title candidates, and several of them, the
\* selection leaves exactly the title with the smallest id in text_content,
\* and once fulltexts_and_titles has been loaded the document has one
\* best_content row, contributed by that title.
C23_SeveralTitlesLeaveTheSmallestId ==
    \A d \in Docs : SeveralTitlesOnly(d) =>
        LET kept == Min({t.id : t \in RowsOf(candidates, d, "title")}) IN
        /\ {t.id : t \in RowsOf(text_content, d, "title")} = {kept}
        /\ pc = "load_fulltexts_and_titles" =>
              {b.text_content_id1 : b \in BestContentRows(d)} = {kept}

\* C24: the rows the selection keeps are a function of the candidate records
\* alone: through whichever index the store reads the groups of the two
\* duplicate deletions, and so whichever of several rows of minimal rank it
\* takes the id from, the rows text_content holds when the script has ended,
\* and the abstracts table built from them, are the same.
C24_WinnerIsAFunctionOfTheCandidates ==
    Terminated =>
        LET t1 == delete_content_for_which_fulltext_exists(candidates) IN
        \A scan1 \in ScanOrders, scan2 \in ScanOrders :
            LET t2 == delete_duplicate_fulltexts(t1, scan1)
                t3 == delete_duplicate_abstracts(t2, scan2)
            IN  /\ text_content = t3
                /\ abstracts_tbl = combine_abstracts_with_titles(t3)

\* C25: every row of best_content, in the build store and in the destination
\* store, references candidates of its own document only.  A row without a
\* second reference is the extract of a record the selection kept, of the
\* row's text_ref_id and text_type; a fulltext or title row never has a
\* second reference; a row with a second reference is an abstract row whose
\* first reference is an abstract candidate and whose second is a title
\* candidate of the row's text_ref_id, and its content is their pair.
C25_BackReferencesAreOwnCandidates ==
    \A b \in best_content \cup to_best_content :
        /\ b.text_type \in {"fulltext", "title"} => b.text_content_id2 = Null
        /\ b.text_content_id2 = Null =>
              \E c \in RowsOf(text_content, b.text_ref_id, b.text_type) :
                  /\ c \in candidates
                  /\ c.id = b.text_content_id1
                  /\ b.content = ExtractThenDump(c.content)
        /\ b.text_content_id2 # Null =>
              /\ b.text_type = "abstract"
              /\ \E a \in RowsOf(candidates, b.text_ref_id, "abstract"),
                    t \in RowsOf(candidates, b.text_ref_id, "title") :
                    /\ a.id = b.text_content_id1
                    /\ t.id = b.text_content_id2
                    /\ b.content
                         = <<"json", <<Unpack(t.content), Unpack(a.content)>>>>

\* Both loads have run and the table was moved: the destination holds a
\* combined row of one document and a fulltext row of another.
C25_Witness ==
    /\ loaded = {"abstracts", "fulltexts_and_titles"}
    /\ \E b \in to_best_content : b.text_content_id2 # Null
    /\ \E b \in to_best_content : b.text_type = "fulltext"

\* ------------------------------------------------------ specifications
Init == InitScript
Next == NextScript
Spec == Init /\ [][Next]_vars

SpecSelect == InitSelect /\ [][NextSelect]_vars

SpecLoad == InitLoad /\ [][NextLoad]_vars

SpecText == InitText /\ [][NextText]_vars

SpecFilter == InitFilter /\ [][NextFilter]_vars

SpecMesh == InitMesh /\ [][NextMesh]_vars
SpecApi == InitApi /\ [][NextApi]_vars
SpecAssemble == InitAssemble /\ [][NextAssemble]_vars
SpecCsv == InitCsv /\ [][NextCsv]_vars
SpecAgentTexts == InitAgentTexts /\ [][NextAgentTexts]_vars

====
